---- MODULE Spec2Model ----
(***************************************************************************)
(* A model of the YIT GPA calculator: the grade conversion table, the GPA  *)
(* computation engine, and the scraping session AAOWebsite with its grade  *)
(* extraction.                                                             *)
(*                                                                         *)
(* Texts (Rust String / &str) are sequences of one-character tokens.  A    *)
(* CJK character is written as one token holding its pinyin, e.g. the      *)
(* label "不及格" is <<"bu", "ji", "ge">>.                                  *)
(* Option<T> is a sequence of length 0 (None) or 1 (Some(v)).              *)
(* rust_decimal::Decimal values are records [m, e] standing for m / 10^e,  *)
(* kept normalised (no trailing zero in the fraction) so that record       *)
(* equality is Decimal's numeric equality.  Grade points and weighted      *)
(* points have at most two decimals and are integers in hundredths         *)
(* (433 is 4.33).                                                          *)
(***************************************************************************)
EXTENDS Integers, Sequences, FiniteSets, TLC

VARIABLES
    score,          \* SpecGrade: the text handed to score_trans_grade
    grade_out,      \* SpecGrade: the Option<Decimal> it returned
    grade_called,   \* SpecGrade: whether the function has been applied
    gpa_input,      \* SpecGpa: the course list handed to process_scraped_course_results
    gpa_source,     \* SpecGpa: its ResultSource
    gpa_results,    \* SpecGpa: Option<ProcessedGPAResults>, None before the call
    created,        \* Spec: AAOWebsite::new() has returned Ok(Self)
    headers,        \* Spec: AAOWebsite.headers, a HeaderMap (name -> value)
    jar,            \* Spec: the cookie store of AAOWebsite.client
    init_ok,        \* Spec: some earlier init() on this value returned Ok
    login_final_url,\* Spec: Some(final URL) of the last login() that returned Ok
    last_call,      \* Spec: the method called last ("none" before any call)
    last_req,       \* Spec: Option of the request that call sent
    last_resp,      \* Spec: Option of the response it received
    last_ret,       \* Spec: what the call returned: "Ok" or the error variant
    course_list,    \* Spec: the Vec<Course> of Ok(..) when the call was get_grades
    portal_docs,    \* Spec: the grades pages the portal can serve in this run
    web_session,    \* SpecWeb: the tower-sessions record of one browser (key -> value)
    web_handler,    \* SpecWeb: the handler that ran last ("none" before any request)
    web_ret,        \* SpecWeb: what it returned: "Ok" or the error variant
    web_courses,    \* SpecWeb: Option of the Vec<Course> the handler built from its source
    web_status,     \* SpecWeb: the HTTP status of its response
    web_steps,      \* SpecWeb: the requests its scraper sent, each with the step's result
    web_reply,      \* SpecWeb: Option of the JSON body {gpa, courses} of next_result
    grade_legacy,   \* SpecLegacy: the Option<Decimal> utils.rs' score_trans_grade returned
    legacy_called,  \* SpecLegacy: whether it has been applied
    user_agent,     \* SpecAgent: Option of the value of the static USER_AGENT of scraping.rs
    agent_lock,     \* SpecAgent: the task holding the lock logout takes, or Unlocked
    agent_rotated,  \* SpecAgent: Option of the value logout wrote under its lock
    agent_pc,       \* SpecAgent: where each task is
    client_agent,   \* SpecAgent: the user-agent of the client each new() built
    seen_rotation,  \* SpecAgent: the last completed rotation when each new() ran
    lock_at_read,   \* SpecAgent: the holder of the lock when each new() read the value
    scrapers,       \* SpecIsolation: the AAOWebsite and the position of each request
    portal_script   \* SpecIsolation: the answers the portal gives to each request

grade_vars == <<score, grade_out, grade_called>>

gpa_vars == <<gpa_input, gpa_source, gpa_results>>

sess_vars ==
    <<created, headers, jar, init_ok, login_final_url,
      last_call, last_req, last_resp, last_ret, course_list, portal_docs>>

web_vars ==
    <<web_session, web_handler, web_ret, web_courses, web_status, web_steps, web_reply>>

legacy_vars == <<grade_legacy, legacy_called>>

agent_vars ==
    <<user_agent, agent_lock, agent_rotated, agent_pc, client_agent, seen_rotation,
      lock_at_read>>

iso_vars == <<scrapers, portal_script>>

vars == <<grade_vars, gpa_vars, sess_vars, web_vars, legacy_vars, agent_vars, iso_vars>>

----------------------------------------------------------------------------
(* Bounds of the model *)

MaxScoreLen == 4

MaxCourses == 3

MaxRows == 3

MaxSheetRows == 2

MaxTasks == 2

\* the value of agent_lock when no task holds the lock
Unlocked == 0

----------------------------------------------------------------------------
(* Option *)

None == <<>>

Some(v) == <<v>>

IsSome(o) == Len(o) = 1

Unwrap(o) == o[1]

----------------------------------------------------------------------------
(* Texts *)

Digits == {"0", "1", "2", "3", "4", "5", "6", "7", "8", "9"}

DigitVal(c) ==
    CASE c = "0" -> 0 [] c = "1" -> 1 [] c = "2" -> 2 [] c = "3" -> 3
      [] c = "4" -> 4 [] c = "5" -> 5 [] c = "6" -> 6 [] c = "7" -> 7
      [] c = "8" -> 8 [] c = "9" -> 9

\* str::contains(&str): k occurs in s as a contiguous substring
Contains(s, k) ==
    \E i \in 0..(Len(s) - Len(k)) : \A j \in 1..Len(k) : s[i + j] = k[j]

RECURSIVE TrimStart(_)
TrimStart(s) ==
    IF s # <<>> /\ Head(s) = " " THEN TrimStart(Tail(s)) ELSE s

RECURSIVE TrimEnd(_)
TrimEnd(s) ==
    IF s # <<>> /\ s[Len(s)] = " " THEN TrimEnd(SubSeq(s, 1, Len(s) - 1)) ELSE s

\* str::trim(): leading and trailing whitespace removed
Trim(s) == TrimEnd(TrimStart(s))

----------------------------------------------------------------------------
(* Decimal *)

RECURSIVE Pow10(_)
Pow10(n) == IF n = 0 THEN 1 ELSE 10 * Pow10(n - 1)

RECURSIVE Normalize(_)
Normalize(d) ==
    IF d.e > 0 /\ d.m % 10 = 0
    THEN Normalize([m |-> d.m \div 10, e |-> d.e - 1])
    ELSE d

Dec(n) == [m |-> n, e |-> 0]

\* d < n and d <= n for an integer n
DecLtInt(d, n) == d.m < n * Pow10(d.e)

DecLeInt(d, n) == d.m <= n * Pow10(d.e)

DecAdd(a, b) ==
    LET e == IF a.e > b.e THEN a.e ELSE b.e
    IN  Normalize([m |-> a.m * Pow10(e - a.e) + b.m * Pow10(e - b.e), e |-> e])

RECURSIVE DigitsValue(_)
DigitsValue(ds) ==
    IF ds = <<>> THEN 0
    ELSE 10 * DigitsValue(SubSeq(ds, 1, Len(ds) - 1)) + DigitVal(ds[Len(ds)])

\* str::parse::<Decimal>(): an optional sign, then digits with at most one
\* decimal point and at least one digit; anything else is Err (None here).
ParseDecimal(t) ==
    LET signed == t # <<>> /\ t[1] \in {"+", "-"}
        neg    == t # <<>> /\ t[1] = "-"
        body   == IF signed THEN Tail(t) ELSE t
        dots   == {i \in 1..Len(body) : body[i] = "."}
        digs   == SelectSeq(body, LAMBDA c : c \in Digits)
        ok     == /\ \A i \in 1..Len(body) : body[i] \in Digits \cup {"."}
                  /\ Cardinality(dots) <= 1
                  /\ digs # <<>>
        scale  == IF dots = {} THEN 0 ELSE Len(body) - (CHOOSE i \in dots : TRUE)
        mag    == DigitsValue(digs)
    IN  IF ok
        THEN Some(Normalize([m |-> IF neg THEN 0 - mag ELSE mag, e |-> scale]))
        ELSE None

\* Decimal::round_dp(2) of the rational num / den (den > 0), in hundredths:
\* the nearest hundredth, a midpoint going to the even neighbour.
RoundHalfEven(num, den) ==
    LET a   == IF num < 0 THEN 0 - num ELSE num
        q   == a \div den
        r   == a % den
        up  == 2 * r > den \/ (2 * r = den /\ q % 2 = 1)
        mag == IF up THEN q + 1 ELSE q
    IN  IF num < 0 THEN 0 - mag ELSE mag

\* round_2decimal(d), d a Decimal, the result in hundredths
round_2decimal(d) == RoundHalfEven(d.m * 100, Pow10(d.e))

----------------------------------------------------------------------------
(* business.rs: the grade conversion table *)

LabelBuJiGe == <<"bu", "ji", "ge">>
LabelBuHeGe == <<"bu", "he", "ge">>
LabelJiGe   == <<"ji", "ge">>
LabelHeGe   == <<"he", "ge">>
LabelZhong  == <<"zhong">>
LabelLiang  == <<"liang">>
LabelYou    == <<"you">>

GradeLabels ==
    {LabelBuJiGe, LabelBuHeGe, LabelJiGe, LabelHeGe, LabelZhong, LabelLiang, LabelYou}

\* score_bands with the last band closed one step too early (s < 100)
score_bands_top_exclusive(s) ==
    CASE DecLtInt(s, 60)  -> Some(0)
      [] ~DecLtInt(s, 60) /\ DecLtInt(s, 64) -> Some(133)
      [] ~DecLtInt(s, 64) /\ DecLtInt(s, 67) -> Some(167)
      [] ~DecLtInt(s, 67) /\ DecLtInt(s, 70) -> Some(200)
      [] ~DecLtInt(s, 70) /\ DecLtInt(s, 74) -> Some(233)
      [] ~DecLtInt(s, 74) /\ DecLtInt(s, 77) -> Some(267)
      [] ~DecLtInt(s, 77) /\ DecLtInt(s, 80) -> Some(300)
      [] ~DecLtInt(s, 80) /\ DecLtInt(s, 83) -> Some(333)
      [] ~DecLtInt(s, 83) /\ DecLtInt(s, 87) -> Some(367)
      [] ~DecLtInt(s, 87) /\ DecLtInt(s, 90) -> Some(400)
      [] ~DecLtInt(s, 90) /\ DecLtInt(s, 95) -> Some(433)
      [] ~DecLtInt(s, 95) /\ DecLtInt(s, 100) -> Some(467)
      [] OTHER -> None

\* score_bands with the points of the bands [77, 80) and [80, 83) exchanged
score_bands_dip_at_80(s) ==
    IF DecLtInt(s, 60) THEN Some(0)
    ELSE IF DecLtInt(s, 64) THEN Some(133)
    ELSE IF DecLtInt(s, 67) THEN Some(167)
    ELSE IF DecLtInt(s, 70) THEN Some(200)
    ELSE IF DecLtInt(s, 74) THEN Some(233)
    ELSE IF DecLtInt(s, 77) THEN Some(267)
    ELSE IF DecLtInt(s, 80) THEN Some(333)
    ELSE IF DecLtInt(s, 83) THEN Some(300)
    ELSE IF DecLtInt(s, 87) THEN Some(367)
    ELSE IF DecLtInt(s, 90) THEN Some(400)
    ELSE IF DecLtInt(s, 95) THEN Some(433)
    ELSE IF DecLeInt(s, 100) THEN Some(467)
    ELSE None

\* the match on score_val: the first arm whose guard holds
score_bands(s) ==
    IF DecLtInt(s, 60) THEN Some(0)
    ELSE IF DecLtInt(s, 64) THEN Some(133)
    ELSE IF DecLtInt(s, 67) THEN Some(167)
    ELSE IF DecLtInt(s, 70) THEN Some(200)
    ELSE IF DecLtInt(s, 74) THEN Some(233)
    ELSE IF DecLtInt(s, 77) THEN Some(267)
    ELSE IF DecLtInt(s, 80) THEN Some(300)
    ELSE IF DecLtInt(s, 83) THEN Some(333)
    ELSE IF DecLtInt(s, 87) THEN Some(367)
    ELSE IF DecLtInt(s, 90) THEN Some(400)
    ELSE IF DecLtInt(s, 95) THEN Some(433)
    ELSE IF DecLeInt(s, 100) THEN Some(467)
    ELSE None

\* the label match taken on the first character only
score_label_first_char(t) ==
    IF t = <<>> THEN None
    ELSE IF Head(t) = "bu" THEN Some(0)
    ELSE IF Head(t) \in {"ji", "he"} THEN Some(100)
    ELSE IF Head(t) = "zhong" THEN Some(233)
    ELSE IF Head(t) = "liang" THEN Some(333)
    ELSE IF Head(t) = "you" THEN Some(433)
    ELSE None

\* the match on the labels; None when no label arm matches
score_label(t) ==
    IF t = LabelBuJiGe \/ t = LabelBuHeGe THEN Some(0)
    ELSE IF t = LabelJiGe \/ t = LabelHeGe THEN Some(100)
    ELSE IF t = LabelZhong THEN Some(233)
    ELSE IF t = LabelLiang THEN Some(333)
    ELSE IF t = LabelYou THEN Some(433)
    ELSE None

score_trans_grade(t) ==
    IF IsSome(score_label(t)) THEN score_label(t)
    ELSE IF ~IsSome(ParseDecimal(t)) THEN None
    ELSE score_bands(Unwrap(ParseDecimal(t)))

----------------------------------------------------------------------------
(* utils.rs: the earlier copy of the grade conversion table *)

\* the match on the labels in utils.rs
utils_score_label(t) ==
    IF t = LabelBuJiGe \/ t = LabelBuHeGe THEN Some(0)
    ELSE IF t = LabelJiGe \/ t = LabelHeGe THEN Some(100)
    ELSE IF t = LabelZhong THEN Some(233)
    ELSE IF t = LabelLiang THEN Some(333)
    ELSE IF t = LabelYou THEN Some(433)
    ELSE None

\* the bands of utils.rs with the last arm closed at 100 (s <= 100)
utils_score_bands_top_inclusive(s) ==
    IF DecLtInt(s, 60) THEN Some(0)
    ELSE IF DecLtInt(s, 64) THEN Some(133)
    ELSE IF DecLtInt(s, 67) THEN Some(167)
    ELSE IF DecLtInt(s, 70) THEN Some(200)
    ELSE IF DecLtInt(s, 74) THEN Some(233)
    ELSE IF DecLtInt(s, 77) THEN Some(267)
    ELSE IF DecLtInt(s, 80) THEN Some(300)
    ELSE IF DecLtInt(s, 83) THEN Some(333)
    ELSE IF DecLtInt(s, 87) THEN Some(367)
    ELSE IF DecLtInt(s, 90) THEN Some(400)
    ELSE IF DecLtInt(s, 95) THEN Some(433)
    ELSE IF DecLeInt(s, 100) THEN Some(467)
    ELSE None

\* the match on score_val in utils.rs: the last arm is s < 100
utils_score_bands(s) ==
    IF DecLtInt(s, 60) THEN Some(0)
    ELSE IF DecLtInt(s, 64) THEN Some(133)
    ELSE IF DecLtInt(s, 67) THEN Some(167)
    ELSE IF DecLtInt(s, 70) THEN Some(200)
    ELSE IF DecLtInt(s, 74) THEN Some(233)
    ELSE IF DecLtInt(s, 77) THEN Some(267)
    ELSE IF DecLtInt(s, 80) THEN Some(300)
    ELSE IF DecLtInt(s, 83) THEN Some(333)
    ELSE IF DecLtInt(s, 87) THEN Some(367)
    ELSE IF DecLtInt(s, 90) THEN Some(400)
    ELSE IF DecLtInt(s, 95) THEN Some(433)
    ELSE IF DecLtInt(s, 100) THEN Some(467)
    ELSE None

\* utils::score_trans_grade
utils_score_trans_grade(t) ==
    IF IsSome(utils_score_label(t)) THEN utils_score_label(t)
    ELSE IF ~IsSome(ParseDecimal(t)) THEN None
    ELSE utils_score_bands(Unwrap(ParseDecimal(t)))

----------------------------------------------------------------------------
(* models.rs: Course, and the way scraping.rs and handler.rs build one *)

\* a Course whose weighted point is cut to two decimals instead of rounded
MakeCourse_truncated(name, nature, score_text, credit_text) ==
    LET credit      == Unwrap(ParseDecimal(credit_text))
        grade_point == Unwrap(score_trans_grade(score_text))
    IN  [name       |-> name,
         nature     |-> nature,
         score      |-> score_text,
         credit     |-> credit,
         grade      |-> grade_point,
         credit_gpa |-> (grade_point * credit.m) \div Pow10(credit.e)]

\* Course { name, nature, score, credit, grade, credit_gpa } from the texts of
\* a row: credit parsed as a Decimal, grade by score_trans_grade, and
\* credit_gpa = round_2decimal(grade_point * credit).  Callers build a Course
\* only when both conversions succeeded.
MakeCourse(name, nature, score_text, credit_text) ==
    LET credit      == Unwrap(ParseDecimal(credit_text))
        grade_point == Unwrap(score_trans_grade(score_text))
    IN  [name       |-> name,
         nature     |-> nature,
         score      |-> score_text,
         credit     |-> credit,
         grade      |-> grade_point,
         credit_gpa |-> RoundHalfEven(grade_point * credit.m, Pow10(credit.e))]

----------------------------------------------------------------------------
(* business.rs: the academic policy filter and the GPA engine *)

\* "入学教育"
PERMANENT_IGNORED_COURSES == {<<"ru", "xue", "jiao", "yu4">>}

\* "公共选修课", "通识教育选修"
NATURE_EXCLUSIONS ==
    {<<"gong", "gong4", "xuan", "xiu", "ke">>,
     <<"tong", "shi_know", "jiao", "yu4", "xuan", "xiu">>}

\* the 22 keywords, in the order of the source
EXCLUDED_COURSES_KEYWORD ==
    {<<"ti", "yu4">>,
     <<"zhi_job", "ye", "sheng", "ya", "gui", "hua", "yu3", "jiu", "ye", "zhi3", "dao">>,
     <<"da", "xue", "sheng", "an", "quan", "jiao", "yu4">>,
     <<"da", "xue", "sheng", "xin", "li3", "jian4", "kang", "jiao", "yu4">>,
     <<"xing", "shi4", "yu3", "zheng", "ce">>,
     <<"jun", "shi_affair", "li3", "lun">>,
     <<"jun", "shi_affair", "xun", "lian">>,
     <<"jun", "shi_affair", "ji_skill", "neng">>,
     <<"chuang", "xin_new", "chuang", "ye", "jiao", "yu4">>,
     <<"lao", "dong", "jiao", "yu4">>,
     <<"zhuan", "ye", "ji_base", "chu", "ren", "zhi_know">>,
     <<"bi", "ye", "jiao", "yu4">>,
     <<"she", "hui", "shi_real", "jian_practice">>,
     <<"she", "hui", "diao", "yan">>,
     <<"zong", "he", "shi_real", "xun">>,
     <<"zong", "he", "she_set", "ji_plan", "yu3", "zhan", "shi_show">>,
     <<"zhi_job", "chang", "ti", "yan_test">>,
     <<"shi_real", "xi">>,
     <<"jian_see", "xi">>,
     <<"ming", "shi_teacher", "da", "jiang", "tang">>,
     <<"ling", "dao", "li_force">>,
     <<"xi_sys", "lie", "jiang", "zuo">>}

\* the credit sum taken from the first course only
SumCredit_head_only(cs) ==
    IF cs = <<>> THEN Dec(0) ELSE Head(cs).credit

RECURSIVE SumCredit(_)
SumCredit(cs) ==
    IF cs = <<>> THEN Dec(0) ELSE DecAdd(Head(cs).credit, SumCredit(Tail(cs)))

RECURSIVE SumCreditGpa(_)
SumCreditGpa(cs) ==
    IF cs = <<>> THEN 0 ELSE Head(cs).credit_gpa + SumCreditGpa(Tail(cs))

\* the Default-mode filter without the keyword test
DefaultKeeps_nature_only(c) == c.nature \notin NATURE_EXCLUSIONS

\* the Default-mode filter with the nature matched as a substring
DefaultKeeps_nature_substring(c) ==
    /\ ~\E k \in EXCLUDED_COURSES_KEYWORD : Contains(c.name, k)
    /\ ~\E n \in NATURE_EXCLUSIONS : Contains(n, c.nature)

\* the closure of the Default-mode filter
DefaultKeeps(c) ==
    /\ ~\E k \in EXCLUDED_COURSES_KEYWORD : Contains(c.name, k)
    /\ c.nature \notin NATURE_EXCLUSIONS

\* gpa with the divisor taken as the number of courses instead of the credits
gpa_of_unweighted(cs) ==
    IF cs # <<>> THEN RoundHalfEven(SumCreditGpa(cs), Len(cs)) ELSE 0

\* gpa without the zero-credit guard's result: the mean grade point is returned
\* when the credits do not sum to a positive number
gpa_of_mean_grade_fallback(cs) ==
    LET total_credits == SumCredit(cs)
        total_cg      == SumCreditGpa(cs)
    IN  IF total_credits.m > 0
        THEN RoundHalfEven(total_cg * Pow10(total_credits.e), total_credits.m)
        ELSE IF cs = <<>> THEN 0 ELSE Head(cs).grade

\* round_2decimal(total_cg / total_credits) when total_credits > 0, else 0.
\* The quotient is rounded from its exact value: Decimal's 28-digit quotient
\* rounds the same way for operands of this size.
gpa_of(cs) ==
    LET total_credits == SumCredit(cs)
        total_cg      == SumCreditGpa(cs)
    IN  IF total_credits.m > 0
        THEN RoundHalfEven(total_cg * Pow10(total_credits.e), total_credits.m)
        ELSE 0

\* the engine with the sums taken before the mode's filter
calculate_gpa_from_list_sums_unfiltered(courses, mode) ==
    LET kept == SelectSeq(courses, LAMBDA c : c.name \notin PERMANENT_IGNORED_COURSES)
        courses_to_use ==
            IF mode = "Default" THEN SelectSeq(kept, DefaultKeeps) ELSE kept
    IN  [gpa |-> gpa_of(kept), courses |-> courses_to_use]

\* the engine with the Default filter applied to the unfiltered input
calculate_gpa_from_list_default_skips_blocklist(courses, mode) ==
    LET kept == SelectSeq(courses, LAMBDA c : c.name \notin PERMANENT_IGNORED_COURSES)
        courses_to_use ==
            IF mode = "Default" THEN SelectSeq(courses, DefaultKeeps) ELSE kept
    IN  [gpa |-> gpa_of(courses_to_use), courses |-> courses_to_use]

calculate_gpa_from_list(courses, mode) ==
    LET kept == SelectSeq(courses, LAMBDA c : c.name \notin PERMANENT_IGNORED_COURSES)
        courses_to_use ==
            IF mode = "Default" THEN SelectSeq(kept, DefaultKeeps) ELSE kept
    IN  [gpa |-> gpa_of(courses_to_use), courses |-> courses_to_use]

\* the results with the Default result computed whatever the source
process_scraped_course_results_default_always(courses, source) ==
    [all     |-> calculate_gpa_from_list(courses, "All"),
     default |-> Some(calculate_gpa_from_list(courses, "Default"))]

process_scraped_course_results(courses, source) ==
    [all     |-> calculate_gpa_from_list(courses, "All"),
     default |-> IF source = "OfficialWebsite"
                 THEN Some(calculate_gpa_from_list(courses, "Default"))
                 ELSE None]

----------------------------------------------------------------------------
(* SpecGpa: process_scraped_course_results applied to bounded course lists *)

NameCalculus == <<"C", "a", "l", "c", "u", "l", "u", "s">>

NamePE == <<"P", "E">>

NameTiYu == <<"ti", "yu4">>

NatureBiXiu == <<"bi", "xiu">>

\* the rows the input courses are built from: name, nature, score, credit
CourseRows ==
    {<<NameCalculus, <<>>, <<"9", "2">>, <<"4">>>>,
     <<NamePE, <<>>, <<"8", "0">>, <<"1">>>>,
     <<NameTiYu, <<>>, <<"8", "0">>, <<"1">>>>,
     <<<<"ru", "xue", "jiao", "yu4">>, <<>>, LabelHeGe, <<"1">>>>,
     <<<<"A", "r", "t">>, <<"gong", "gong4", "xuan", "xiu", "ke">>, LabelLiang, <<"2">>>>,
     <<<<"Z">>, <<>>, <<"8", "5">>, <<"0">>>>,
     <<<<"L", "a", "b">>, <<>>, <<"7", "7">>, <<"0", ".", "5">>>>,
     <<<<"bi", "ye", "shi_real", "xi">>, <<>>, LabelYou, <<"6">>>>,
     <<<<"A", "r", "t">>, <<"gong", "gong4", "xuan", "xiu">>, <<"6", "0">>, <<"2">>>>,
     <<<<"N">>, NatureBiXiu, <<"9", "0">>, <<"-", "2">>>>}

CoursePool == {MakeCourse(r[1], r[2], r[3], r[4]) : r \in CourseRows}

CourseLists == UNION {[1..n -> CoursePool] : n \in 0..MaxCourses}

GpaIdle ==
    /\ gpa_input = <<>>
    /\ gpa_source = "InputFile"
    /\ gpa_results = None

SessIdle ==
    /\ created = FALSE
    /\ headers = <<>>
    /\ jar = {}
    /\ init_ok = FALSE
    /\ login_final_url = None
    /\ last_call = "none"
    /\ last_req = None
    /\ last_resp = None
    /\ last_ret = "none"
    /\ course_list = <<>>
    /\ portal_docs = {}

GradeIdle ==
    /\ score = <<>>
    /\ grade_out = None
    /\ grade_called = FALSE

WebIdle ==
    /\ web_session = <<>>
    /\ web_handler = "none"
    /\ web_ret = "none"
    /\ web_courses = None
    /\ web_status = 0
    /\ web_steps = <<>>
    /\ web_reply = None

LegacyIdle ==
    /\ grade_legacy = None
    /\ legacy_called = FALSE

IsoIdle ==
    /\ scrapers = <<>>
    /\ portal_script = <<>>

AgentIdle ==
    /\ user_agent = None
    /\ agent_lock = Unlocked
    /\ agent_rotated = None
    /\ agent_pc = <<>>
    /\ client_agent = <<>>
    /\ seen_rotation = <<>>
    /\ lock_at_read = <<>>

InitGpa ==
    /\ gpa_input \in CourseLists
    /\ gpa_source \in {"OfficialWebsite", "InputFile"}
    /\ gpa_results = None
    /\ GradeIdle
    /\ SessIdle
    /\ WebIdle
    /\ LegacyIdle
    /\ AgentIdle
    /\ IsoIdle

ProcessScrapedCourseResults ==
    /\ gpa_results = None
    /\ gpa_results' = Some(process_scraped_course_results(gpa_input, gpa_source))
    /\ UNCHANGED <<gpa_input, gpa_source, grade_vars, sess_vars, web_vars, legacy_vars, agent_vars, iso_vars>>

NextGpa == ProcessScrapedCourseResults

SpecGpa == InitGpa /\ [][NextGpa]_vars

----------------------------------------------------------------------------
(* scraping.rs: grade extraction, the loop of get_grades over the rows *)

\* A document is the sequence of its tr elements, a tr the sequence of the
\* texts of its td cells; tds[3], tds[4], tds[6], tds[11] are cells 4, 5, 7, 12.
MIN_CELLS == 12

\* the Course a row yields, None when the row is skipped
RowCourse(tds) ==
    IF Len(tds) < MIN_CELLS THEN None
    ELSE LET name        == Trim(tds[4])
             score_text  == Trim(tds[5])
             nature      == Trim(tds[12])
             credit_text == Trim(tds[7])
         IN  IF ~IsSome(ParseDecimal(credit_text)) THEN None
             ELSE IF ~IsSome(score_trans_grade(score_text)) THEN None
             ELSE Some(MakeCourse(name, nature, score_text, credit_text))

\* HashMap::insert / *existing = course
MapPut(record, name, course) ==
    [n \in DOMAIN record \cup {name} |-> IF n = name THEN course ELSE record[n]]

\* the body of the loop with >= in place of >: a tie replaces the stored attempt
ExtractStep_ties_replace(courses_record, tds) ==
    IF ~IsSome(RowCourse(tds)) THEN courses_record
    ELSE LET course == Unwrap(RowCourse(tds))
         IN  IF course.name \in DOMAIN courses_record
             THEN IF course.grade >= courses_record[course.name].grade
                  THEN MapPut(courses_record, course.name, course)
                  ELSE courses_record
             ELSE MapPut(courses_record, course.name, course)

\* the body of the loop: one row folded into courses_record
ExtractStep(courses_record, tds) ==
    IF ~IsSome(RowCourse(tds)) THEN courses_record
    ELSE LET course == Unwrap(RowCourse(tds))
         IN  IF course.name \in DOMAIN courses_record
             THEN IF course.grade > courses_record[course.name].grade
                  THEN MapPut(courses_record, course.name, course)
                  ELSE courses_record
             ELSE MapPut(courses_record, course.name, course)

RECURSIVE ExtractFold(_, _)
ExtractFold(courses_record, trs) ==
    IF trs = <<>> THEN courses_record
    ELSE ExtractFold(ExtractStep(courses_record, Head(trs)), Tail(trs))

\* the fold without skip(1): the first tr is read as a data row
ExtractCourses_keeps_first_row(trs) ==
    ExtractFold(<<>>, trs)

\* document.select(&tr_selector).skip(1) folded into the HashMap
ExtractCourses(trs) ==
    ExtractFold(<<>>, IF trs = <<>> THEN <<>> ELSE Tail(trs))

RECURSIVE Orderings(_)
Orderings(S) ==
    IF S = {} THEN {<<>>}
    ELSE UNION {{<<x>> \o rest : rest \in Orderings(S \ {x})} : x \in S}

\* courses_record.into_values().collect(): the values in any order
IntoValues(courses_record) ==
    Orderings({courses_record[n] : n \in DOMAIN courses_record})

----------------------------------------------------------------------------
(* scraping.rs: AAOWebsite, the scraping session *)

BASE_URL == "http://yitjw.yinghuaonline.com/yjlgxy_jsxsd"

QUERY_URL == "http://yitjw.yinghuaonline.com/yjlgxy_jsxsd/kscj/cjcx_query?Ves632DSdyV=NEW_XSD_XJCJ"

LOGIN_URL == "http://yitjw.yinghuaonline.com/yjlgxy_jsxsd/xk/LoginToXk"

GRADES_URL == "http://yitjw.yinghuaonline.com/yjlgxy_jsxsd/kscj/cjcx_list"

\* a page the portal redirects an accepted login to
MAIN_URL == "http://yitjw.yinghuaonline.com/yjlgxy_jsxsd/framework/xsMain.jsp"

FORM_CONTENT_TYPE == "application/x-www-form-urlencoded"

\* "/yjlgxy_jsxsd/xk/LoginToXk", as two tokens
login_failure_indicator == <<"/yjlgxy_jsxsd/xk/", "LoginToXk">>

\* HeaderMap::insert
HeaderInsert(h, name, value) ==
    [n \in DOMAIN h \cup {name} |-> IF n = name THEN value ELSE h[n]]

\* the header set new() builds
init_headers ==
    [n \in {"Referer", "Content-Type", "Accept"} |->
        CASE n = "Referer" -> QUERY_URL
          [] n = "Content-Type" -> FORM_CONTENT_TYPE
          [] n = "Accept" -> "*/*"]

\* StatusCode::is_success
is_success(status) == 200 <= status /\ status <= 299

\* The request reqwest sends for client.<method>(url)[.headers(h)][.form(..)]:
\* the headers given to the builder, the form's Content-Type, the client's
\* default Accept where none was given, and the cookies of the store.
\* builder_headers is <<>> when .headers() is not called.
RequestOf(kind, method, url, builder_headers, has_form, cookies) ==
    LET h1 == IF has_form
              THEN HeaderInsert(builder_headers, "Content-Type", FORM_CONTENT_TYPE)
              ELSE builder_headers
        h2 == IF "Accept" \in DOMAIN h1 THEN h1 ELSE HeaderInsert(h1, "Accept", "*/*")
    IN  [kind |-> kind, method |-> method, url |-> url, headers |-> h2, cookies |-> cookies]

\* the request of the one AAOWebsite of Spec, with the cookies of its store
BuildRequest(kind, method, url, builder_headers, has_form) ==
    RequestOf(kind, method, url, builder_headers, has_form, jar)

\* get_grades calls client.post(url).form(..) without .headers(..)
grades_builder_headers == <<>>

\* login with the marker test dropped
login_outcome_no_marker_test(resp) ==
    IF ~is_success(resp.status) THEN "HttpRequest"
    ELSE IF ~IsSome(resp.body) THEN "HttpRequest"
    ELSE "Ok"

\* login classifying by the marker before the status
login_outcome_marker_first(resp) ==
    IF IsSome(resp.body) /\ Contains(Unwrap(resp.body), login_failure_indicator)
    THEN "LoginFailed"
    ELSE IF ~is_success(resp.status) THEN "HttpRequest"
    ELSE IF ~IsSome(resp.body) THEN "HttpRequest"
    ELSE "Ok"

\* what login returns for a response
login_outcome(resp) ==
    IF ~is_success(resp.status) THEN "HttpRequest"
    ELSE IF ~IsSome(resp.body) THEN "HttpRequest"
    ELSE IF Contains(Unwrap(resp.body), login_failure_indicator) THEN "LoginFailed"
    ELSE "Ok"

\* the header update done whatever login returns
login_headers_on_any_outcome(h, outcome, final_url) ==
    HeaderInsert(HeaderInsert(h, "Referer", final_url),
                 "X-Requested-With", "XMLHttpRequest")

\* the header set login leaves: both inserts come after every early return
login_headers(h, outcome, final_url) ==
    IF outcome = "Ok"
    THEN HeaderInsert(HeaderInsert(h, "Referer", final_url),
                      "X-Requested-With", "XMLHttpRequest")
    ELSE h

\* init with the cookie test dropped
init_outcome_no_cookie_test(resp) ==
    IF ~is_success(resp.status) THEN "HttpRequest" ELSE "Ok"

\* what init returns for a response
init_outcome(resp) ==
    IF ~is_success(resp.status) THEN "HttpRequest"
    ELSE IF resp.cookies = {} THEN "CookieInvalid"
    ELSE "Ok"

----------------------------------------------------------------------------
(* The portal: the responses the session can receive *)

HttpStatuses == {200, 404}

CookieSets == {{}, {"JSESSIONID"}}

\* the pages the login endpoint answers with: the main page, the login page
\* echoing its own URL, and pages holding only pieces of the indicator
LoginPages ==
    {<<>>,
     <<"<html>", "<html>">>,
     <<"<html>", "/yjlgxy_jsxsd/xk/", "LoginToXk">>,
     <<"/yjlgxy_jsxsd/xk/", "LoginToXk", "<html>">>,
     <<"/yjlgxy_jsxsd/xk/", "<html>", "LoginToXk">>,
     <<"LoginToXk", "/yjlgxy_jsxsd/xk/">>}

\* Some(text) of a page, or None when reading the body fails
LoginBodies == {None} \cup {Some(b) : b \in LoginPages}

InitResponses ==
    [status : HttpStatuses, cookies : CookieSets, url : {BASE_URL}, body : {None}]

LoginResponses ==
    [status : HttpStatuses, cookies : CookieSets, url : {LOGIN_URL, MAIN_URL},
     body : LoginBodies]

Cell == <<"-">>

\* a tr of 12 cells with the four cells get_grades reads
Row(name, score_text, credit_text, nature) ==
    <<Cell, Cell, Cell, name, score_text, Cell, credit_text, Cell, Cell, Cell, Cell, nature>>

HeaderRow == Row(<<"ke", "cheng">>, <<"cheng", "ji4">>, <<"xue", "fen">>, <<"xing", "zhi4">>)

RowX85 == Row(<<" ", "X">>, <<"8", "5", " ">>, <<"2">>, NatureBiXiu)

RowX86 == Row(<<"X">>, <<"8", "6">>, <<"3">>, NatureBiXiu)

RowX70 == Row(<<"X">>, <<"7", "0">>, <<"2">>, NatureBiXiu)

RowY == Row(<<"Y">>, LabelYou, <<"1", ".", "5">>, <<>>)

RowNoName == Row(<<" ">>, <<"9", "0">>, <<"2">>, NatureBiXiu)

RowNegCredit == Row(<<"N">>, <<"9", "0">>, <<"-", "2">>, NatureBiXiu)

RowBadScore == Row(<<"Y">>, <<"x">>, <<"2">>, NatureBiXiu)

RowShort == SubSeq(RowY, 1, 11)

\* a physical-education course, which the Default mode leaves out
RowTiYu == Row(NameTiYu, <<"9", "0">>, <<"1">>, NatureBiXiu)

DataRows ==
    {RowX85, RowX86, RowX70, RowY, RowNoName, RowNegCredit, RowBadScore, RowShort}

\* the grades page: no tr at all, or a first tr followed by up to MaxRows trs
GradeDocuments ==
    {<<>>} \cup
    {<<first>> \o data :
        first \in {HeaderRow, RowX86},
        data \in UNION {[1..n -> DataRows] : n \in 0..MaxRows}}

\* the responses of the grades endpoint, which sets no cookie
GradeResponses ==
    [status : HttpStatuses, cookies : {{}}, url : {GRADES_URL},
     body : {None} \cup {Some(d) : d \in portal_docs}]

\* the grades pages of the runs that follow the whole protocol
ProtocolDocuments ==
    {<<>>, <<HeaderRow, RowX85, RowX86>>, <<HeaderRow, RowY, RowNoName, RowShort>>,
     <<HeaderRow, RowTiYu>>}

----------------------------------------------------------------------------
(* Spec: every sequence of calls on one AAOWebsite value *)

InitSess ==
    /\ created = FALSE
    /\ headers = <<>>
    /\ jar = {}
    /\ init_ok = FALSE
    /\ login_final_url = None
    /\ last_call = "none"
    /\ last_req = None
    /\ last_resp = None
    /\ last_ret = "none"
    /\ course_list = <<>>
    /\ portal_docs = ProtocolDocuments
    /\ GradeIdle
    /\ GpaIdle
    /\ WebIdle
    /\ LegacyIdle
    /\ AgentIdle
    /\ IsoIdle

\* AAOWebsite::new(): Client::builder().build() may fail
New ==
    /\ ~created
    /\ \E built \in BOOLEAN :
          /\ created' = built
          /\ headers' = IF built THEN init_headers ELSE headers
          /\ last_ret' = IF built THEN "Ok" ELSE "Err"
    /\ last_call' = "new"
    /\ UNCHANGED <<jar, init_ok, login_final_url, last_req, last_resp, course_list,
                   portal_docs>>
    /\ UNCHANGED <<grade_vars, gpa_vars, web_vars, legacy_vars, agent_vars, iso_vars>>

\* a call whose send() fails: Err(HttpRequest), nothing else changes
SendFails(kind, req) ==
    /\ last_call' = kind
    /\ last_req' = Some(req)
    /\ last_resp' = None
    /\ last_ret' = "HttpRequest"
    /\ course_list' = <<>>
    /\ UNCHANGED <<created, headers, jar, init_ok, login_final_url, portal_docs>>

\* AAOWebsite::init(&mut self)
Init ==
    /\ created
    /\ LET req == BuildRequest("init", "GET", BASE_URL, headers, FALSE)
       IN  \/ SendFails("init", req)
           \/ \E resp \in InitResponses :
                 /\ last_call' = "init"
                 /\ last_req' = Some(req)
                 /\ last_resp' = Some(resp)
                 /\ jar' = jar \cup resp.cookies
                 /\ last_ret' = init_outcome(resp)
                 /\ headers' = IF init_outcome(resp) = "Ok"
                               THEN HeaderInsert(headers, "Referer", BASE_URL)
                               ELSE headers
                 /\ init_ok' = (init_ok \/ init_outcome(resp) = "Ok")
                 /\ course_list' = <<>>
                 /\ UNCHANGED <<created, login_final_url, portal_docs>>
    /\ UNCHANGED <<grade_vars, gpa_vars, web_vars, legacy_vars, agent_vars, iso_vars>>

\* AAOWebsite::login(&mut self, username, password)
Login ==
    /\ created
    /\ LET req == BuildRequest("login", "POST", LOGIN_URL, headers, TRUE)
       IN  \/ SendFails("login", req)
           \/ \E resp \in LoginResponses :
                 /\ last_call' = "login"
                 /\ last_req' = Some(req)
                 /\ last_resp' = Some(resp)
                 /\ jar' = jar \cup resp.cookies
                 /\ last_ret' = login_outcome(resp)
                 /\ headers' = login_headers(headers, login_outcome(resp), resp.url)
                 /\ login_final_url' =
                        IF login_outcome(resp) = "Ok" THEN Some(resp.url)
                        ELSE login_final_url
                 /\ course_list' = <<>>
                 /\ UNCHANGED <<created, init_ok, portal_docs>>
    /\ UNCHANGED <<grade_vars, gpa_vars, web_vars, legacy_vars, agent_vars, iso_vars>>

\* AAOWebsite::get_grades(&self)
GetGrades ==
    /\ created
    /\ LET req == BuildRequest("grades", "POST", GRADES_URL, grades_builder_headers, TRUE)
       IN  \/ SendFails("grades", req)
           \/ \E resp \in GradeResponses :
                 /\ last_call' = "grades"
                 /\ last_req' = Some(req)
                 /\ last_resp' = Some(resp)
                 /\ jar' = jar \cup resp.cookies
                 /\ IF is_success(resp.status) /\ IsSome(resp.body)
                    THEN /\ last_ret' = "Ok"
                         /\ course_list' \in IntoValues(ExtractCourses(Unwrap(resp.body)))
                    ELSE /\ last_ret' = "HttpRequest"
                         /\ course_list' = <<>>
                 /\ UNCHANGED <<created, headers, init_ok, login_final_url, portal_docs>>
    /\ UNCHANGED <<grade_vars, gpa_vars, web_vars, legacy_vars, agent_vars, iso_vars>>

Next == New \/ Init \/ Login \/ GetGrades

Spec == InitSess /\ [][Next]_vars

----------------------------------------------------------------------------
(* SpecExtract: get_grades on an authenticated session, over every bounded *)
(* grades page                                                             *)

\* the header set after init() and login() returned Ok, login ending at MAIN_URL
authenticated_headers ==
    HeaderInsert(HeaderInsert(HeaderInsert(init_headers, "Referer", BASE_URL),
                              "Referer", MAIN_URL),
                 "X-Requested-With", "XMLHttpRequest")

\* the session new(), init() and login() leave when each returned Ok
AuthenticatedSession ==
    /\ created = TRUE
    /\ headers = authenticated_headers
    /\ jar = {"JSESSIONID"}
    /\ init_ok = TRUE
    /\ login_final_url = Some(MAIN_URL)
    /\ last_call = "login"
    /\ last_req = Some([kind |-> "login", method |-> "POST", url |-> LOGIN_URL,
                        headers |-> HeaderInsert(init_headers, "Referer", BASE_URL),
                        cookies |-> {"JSESSIONID"}])
    /\ last_resp = Some([status |-> 200, cookies |-> {}, url |-> MAIN_URL,
                         body |-> Some(<<"<html>", "<html>">>)])
    /\ last_ret = "Ok"
    /\ course_list = <<>>

InitExtract ==
    /\ AuthenticatedSession
    /\ \E d \in GradeDocuments : portal_docs = {d}
    /\ GradeIdle
    /\ GpaIdle
    /\ WebIdle
    /\ LegacyIdle
    /\ AgentIdle
    /\ IsoIdle

NextExtract == GetGrades

SpecExtract == InitExtract /\ [][NextExtract]_vars

----------------------------------------------------------------------------
(* handler.rs: the data requests of one browser session *)

\* Session::insert
SessionInsert(record, key, value) ==
    [k \in DOMAIN record \cup {key} |-> IF k = key THEN value ELSE record[k]]

\* what a step of the scraper receives: None when send() fails
Answers(responses) == {None} \cup {Some(r) : r \in responses}

init_step(answer) ==
    IF ~IsSome(answer) THEN "HttpRequest" ELSE init_outcome(Unwrap(answer))

login_step(answer) ==
    IF ~IsSome(answer) THEN "HttpRequest" ELSE login_outcome(Unwrap(answer))

grades_step(answer) ==
    IF /\ IsSome(answer)
       /\ is_success(Unwrap(answer).status)
       /\ IsSome(Unwrap(answer).body)
    THEN "Ok"
    ELSE "HttpRequest"

\* the five inserts of score_from_official
official_inserts(record, results) ==
    LET default_result == Unwrap(results.default)
        all_result     == results.all
        s1 == SessionInsert(record, "gpa_default", default_result.gpa)
        s2 == SessionInsert(s1, "courses_default", default_result.courses)
        s3 == SessionInsert(s2, "gpa_all", all_result.gpa)
        s4 == SessionInsert(s3, "courses_all", all_result.courses)
    IN  SessionInsert(s4, "result_mode", "login")

\* the three inserts of score_from_file
file_inserts(record, results) ==
    LET s1 == SessionInsert(record, "courses_all", results.all.courses)
        s2 == SessionInsert(s1, "gpa_all", results.all.gpa)
    IN  SessionInsert(s2, "result_mode", "file")

WebScrapingErrors == {"HttpRequest", "CookieInvalid", "LoginFailed", "ParseError"}

FileErrors == {"OpenError", "NoValidDataFound"}

\* the variants of WebError, a wrapped error named by its own variant
WebErrors ==
    WebScrapingErrors \cup FileErrors \cup {"TemplateError", "SessionError", "InternalError"}

\* the status with LoginFailed answered like the other scraping errors
web_error_status_login_as_500(error) ==
    IF error \in FileErrors THEN 400 ELSE 500

\* impl IntoResponse for WebError: the status of the response to an error
web_error_status(error) ==
    IF error = "TemplateError" THEN 500
    ELSE IF error = "LoginFailed" THEN 401
    ELSE IF error \in WebScrapingErrors THEN 500
    ELSE IF error \in FileErrors THEN 400
    ELSE IF error = "SessionError" THEN 500
    ELSE 500

\* an error return that also drops what the web session held
HandlerFails_clears_session(error, steps) ==
    /\ web_ret' = error
    /\ web_status' = web_error_status(error)
    /\ web_courses' = None
    /\ web_steps' = steps
    /\ web_reply' = None
    /\ web_session' = <<>>

\* a handler that returns an error before it touches the web session
HandlerFails(error, steps) ==
    /\ web_ret' = error
    /\ web_status' = web_error_status(error)
    /\ web_courses' = None
    /\ web_steps' = steps
    /\ web_reply' = None
    /\ web_session' = web_session

\* a request of the scraper and what the step returned
Step(kind, method, outcome) == [kind |-> kind, method |-> method, outcome |-> outcome]

\* the ? operator with the missing cookie passed over
proceeds_despite_cookie_error(outcome) == outcome \in {"Ok", "CookieInvalid"}

\* the ? operator: the handler goes on only after Ok
proceeds(outcome) == outcome = "Ok"

\* the answers of the login endpoint to the handler's one login: a refusal by
\* status, the login page again, a body that cannot be read, the main page
HandlerLoginResponses ==
    {[status |-> 404, cookies |-> {}, url |-> LOGIN_URL, body |-> None],
     [status |-> 200, cookies |-> {}, url |-> LOGIN_URL,
      body |-> Some(<<"<html>", "/yjlgxy_jsxsd/xk/", "LoginToXk">>)],
     [status |-> 200, cookies |-> {}, url |-> MAIN_URL, body |-> None],
     [status |-> 200, cookies |-> {}, url |-> MAIN_URL,
      body |-> Some(<<"<html>", "<html>">>)]}

\* score_from_official: new, init, login, get_grades, the GPA engine, the inserts
ScoreFromOfficial ==
    /\ web_handler' = "score_from_official"
    /\ \/ HandlerFails("InternalError", <<>>)
       \/ \E init_answer \in Answers(InitResponses) :
          LET init_result == init_step(init_answer)
              s1 == <<Step("init", "GET", init_result)>>
          IN  IF ~proceeds(init_result) THEN HandlerFails(init_result, s1)
              ELSE \E login_answer \in Answers(HandlerLoginResponses) :
                 LET login_result == login_step(login_answer)
                     s2 == Append(s1, Step("login", "POST", login_result))
                 IN  IF ~proceeds(login_result) THEN HandlerFails(login_result, s2)
                     ELSE \E grades_answer \in Answers(GradeResponses) :
                        LET grades_result == grades_step(grades_answer)
                            s3 == Append(s2, Step("grades", "POST", grades_result))
                        IN  IF ~proceeds(grades_result)
                            THEN HandlerFails(grades_result, s3)
                            ELSE \E courses \in IntoValues(
                                     ExtractCourses(Unwrap(Unwrap(grades_answer).body))) :
                                 /\ web_courses' = Some(courses)
                                 /\ web_session' =
                                        official_inserts(web_session,
                                            process_scraped_course_results(
                                                courses, "OfficialWebsite"))
                                 /\ web_ret' = "Ok"
                                 /\ web_status' = 200
                                 /\ web_steps' = s3
                                 /\ web_reply' = None
    /\ UNCHANGED <<grade_vars, gpa_vars, sess_vars, legacy_vars, agent_vars, iso_vars>>

\* the rows of Sheet1: a row is the texts of its cells, name, credit, score
SHEET_HEADER_ROWS == 3

\* row.get(i).map(|c| c.to_string()).unwrap_or_default().trim()
SheetCell(row, i) == IF i <= Len(row) THEN Trim(row[i]) ELSE <<>>

\* the Course a sheet row yields, None when the row is skipped
SheetRowCourse(row) ==
    LET name       == SheetCell(row, 1)
        credit_str == SheetCell(row, 2)
        score_str  == SheetCell(row, 3)
    IN  IF name = <<>> \/ credit_str = <<>> \/ score_str = <<>> THEN None
        ELSE IF ~IsSome(ParseDecimal(credit_str)) THEN None
        ELSE IF ~IsSome(score_trans_grade(score_str)) THEN None
        ELSE Some(MakeCourse(name, <<>>, score_str, credit_str))

RECURSIVE SheetFold(_, _)
SheetFold(courses, rows) ==
    IF rows = <<>> THEN courses
    ELSE SheetFold(courses \o SheetRowCourse(Head(rows)), Tail(rows))

\* range.rows().skip(3) pushed into courses
SheetCourses(rows) ==
    SheetFold(<<>>, SubSeq(rows, SHEET_HEADER_ROWS + 1, Len(rows)))

SheetTitleRow == <<<<"ke", "cheng">>, <<"xue", "fen">>, <<"cheng", "ji4">>>>

SheetCalculus == <<<<"C">>, <<"4">>, <<"9", "2">>>>

SheetPE == <<<<" ", "P", "E">>, <<"1", ".", "5", " ">>, LabelYou>>

SheetNoName == <<<<" ">>, <<"2">>, <<"9", "0">>>>

SheetBadCredit == <<<<"Q">>, <<"x">>, <<"9", "0">>>>

SheetBadScore == <<<<"Q">>, <<"2">>, <<"x">>>>

SheetNegCredit == <<<<"N">>, <<"-", "2">>, <<"9", "0">>>>

SheetShort == <<<<"Q">>>>

SheetRows ==
    {SheetPE, SheetNoName, SheetBadCredit, SheetBadScore, SheetNegCredit, SheetShort}

\* the sheets: three leading rows, the third one a well-formed course row,
\* then up to MaxSheetRows rows
Sheets ==
    {<<SheetTitleRow, SheetTitleRow, SheetCalculus>> \o data :
        data \in UNION {[1..n -> SheetRows] : n \in 0..MaxSheetRows}}

\* the uploads: no gpa_file field, a file that cannot be opened as xlsx, a
\* workbook without Sheet1, a workbook with Sheet1
Uploads ==
    [kind : {"no_field", "unreadable", "no_sheet1"}, rows : {<<>>}]
        \cup [kind : {"sheet1"}, rows : Sheets \cup {<<>>, <<SheetCalculus>>}]

\* an upload without a usable row taken as a result
file_outcome_accepts_empty(courses) == "Ok"

\* if courses.is_empty() { return Err(FileError::NoValidDataFound.into()) }
file_outcome(courses) ==
    IF courses = <<>> THEN "NoValidDataFound" ELSE "Ok"

\* the courses score_from_file collects from an upload
file_courses(upload) ==
    IF upload.kind = "sheet1" THEN SheetCourses(upload.rows) ELSE <<>>

\* what score_from_file returns for an upload, with the courses collected
file_run(upload) ==
    IF upload.kind = "unreadable"
    THEN [ret |-> "OpenError", courses |-> <<>>]
    ELSE [ret |-> file_outcome(file_courses(upload)), courses |-> file_courses(upload)]

\* the runs of score_from_file over every upload
FileRuns == {file_run(upload) : upload \in Uploads}

\* score_from_file
ScoreFromFile ==
    /\ web_handler' = "score_from_file"
    /\ \E run \in FileRuns :
          IF run.ret # "Ok" THEN HandlerFails(run.ret, <<>>)
          ELSE /\ web_courses' = Some(run.courses)
               /\ web_session' =
                      file_inserts(web_session,
                          process_scraped_course_results(run.courses, "InputFile"))
               /\ web_ret' = "Ok"
               /\ web_status' = 200
               /\ web_steps' = <<>>
               /\ web_reply' = None
    /\ UNCHANGED <<grade_vars, gpa_vars, sess_vars, legacy_vars, agent_vars, iso_vars>>

\* session.get(key).await?.unwrap_or_default()
SessionGet(record, key, default) ==
    IF key \in DOMAIN record THEN record[key] ELSE default

\* the values of the mode field of a /recalc request
RecalcModes == {"all", "default", "x"}

\* the match of next_result: the mode asked, with the gpa and the courses of
\* the JSON body
next_result_reply(record, mode) ==
    IF mode = "all"
    THEN [mode    |-> mode,
          gpa     |-> SessionGet(record, "gpa_all", 0),
          courses |-> SessionGet(record, "courses_all", <<>>)]
    ELSE [mode    |-> mode,
          gpa     |-> SessionGet(record, "gpa_default", 0),
          courses |-> SessionGet(record, "courses_default", <<>>)]

\* next_result, the handler of /recalc
NextResult ==
    /\ web_handler' = "next_result"
    /\ \E mode \in RecalcModes :
          web_reply' = Some(next_result_reply(web_session, mode))
    /\ web_ret' = "Ok"
    /\ web_status' = 200
    /\ web_courses' = None
    /\ web_steps' = <<>>
    /\ web_session' = web_session
    /\ UNCHANGED <<grade_vars, gpa_vars, sess_vars, legacy_vars, agent_vars, iso_vars>>

\* "请先登录或使用免登录模式获取绩点数据。"
FLASH_LOGIN_FIRST == <<"qing", "xian", "deng", "lu4">>

\* the (gpa, courses) pair first_result reads, by result_mode
first_result_data(record) ==
    IF SessionGet(record, "result_mode", "file") = "login"
    THEN [gpa     |-> SessionGet(record, "gpa_default", 0),
          courses |-> SessionGet(record, "courses_default", <<>>)]
    ELSE [gpa     |-> SessionGet(record, "gpa_all", 0),
          courses |-> SessionGet(record, "courses_all", <<>>)]

\* first_result, the handler of GET /result: a redirect to "/" with a flash
\* message when the courses read are empty, else the page result.html, an
\* embedded template whose rendering is taken to succeed
FirstResult ==
    /\ web_handler' = "first_result"
    /\ LET data == first_result_data(web_session)
       IN  IF data.courses = <<>>
           THEN /\ web_session' = SessionInsert(web_session, "flash_msg", FLASH_LOGIN_FIRST)
                /\ web_reply' = Some([kind |-> "redirect", to |-> "/"])
                /\ web_status' = 303
           ELSE /\ web_session' = web_session
                /\ web_reply' =
                      Some([kind        |-> "page",
                            gpa         |-> data.gpa,
                            courses     |-> data.courses,
                            result_mode |-> SessionGet(web_session, "result_mode", "file")])
                /\ web_status' = 200
    /\ web_ret' = "Ok"
    /\ web_courses' = None
    /\ web_steps' = <<>>
    /\ UNCHANGED <<grade_vars, gpa_vars, sess_vars, legacy_vars, agent_vars, iso_vars>>

\* session.delete() leaving the record as it was
logout_session_keeps_record(record) == record

\* session.delete(): the record is cleared and removed from the store
logout_session(record) == <<>>

\* the strings get_rua() can return
UserAgents == {"ua1", "ua2", "ua3"}

\* logout, the handler of POST /logout: the session is deleted, then the
\* user-agent is rewritten under the lock, which is free again on return; the
\* interleavings of that block with other requests are followed in SpecAgent
Logout ==
    /\ web_handler' = "logout"
    /\ \/ /\ HandlerFails("InternalError", <<>>)
          /\ agent_rotated' = agent_rotated
       \/ /\ web_session' = logout_session(web_session)
          /\ \E new_user_agent \in UserAgents : agent_rotated' = Some(new_user_agent)
          /\ web_ret' = "Ok"
          /\ web_status' = 200
          /\ web_courses' = None
          /\ web_steps' = <<>>
          /\ web_reply' = None
    /\ UNCHANGED <<user_agent, agent_lock, agent_pc, client_agent, seen_rotation,
                   lock_at_read>>
    /\ UNCHANGED <<grade_vars, gpa_vars, sess_vars, legacy_vars, iso_vars>>

\* a browser session starts with an empty record; no scraper exists between
\* requests
InitWeb == InitSess

NextWeb == ScoreFromOfficial \/ ScoreFromFile \/ NextResult \/ FirstResult \/ Logout

SpecWeb == InitWeb /\ [][NextWeb]_vars

----------------------------------------------------------------------------
(* SpecGrade: score_trans_grade applied to every bounded score text *)

ScoreAlphabet == Digits \cup {".", "-", "x"}

ScoreTexts ==
    (UNION {[1..n -> ScoreAlphabet] : n \in 0..MaxScoreLen})
        \cup GradeLabels \cup {<<"you", "x">>, <<"ge">>, <<"liang", "hao">>}

InitGrade ==
    /\ score \in ScoreTexts
    /\ grade_out = None
    /\ grade_called = FALSE
    /\ GpaIdle
    /\ SessIdle
    /\ WebIdle
    /\ LegacyIdle
    /\ AgentIdle
    /\ IsoIdle

ScoreTransGrade ==
    /\ ~grade_called
    /\ grade_called' = TRUE
    /\ grade_out' = score_trans_grade(score)
    /\ UNCHANGED <<score, gpa_vars, sess_vars, web_vars, legacy_vars, agent_vars, iso_vars>>

NextGrade == ScoreTransGrade

SpecGrade == InitGrade /\ [][NextGrade]_vars

----------------------------------------------------------------------------
(* SpecAgent: concurrent requests around the process-wide user-agent.
   scraping.rs declares USER_AGENT as an immutable &'static str set once by
   lazy_static, and new() reads it by a plain dereference; logout in
   handler.rs takes USER_AGENT.lock() and writes through the guard.  The two
   files do not agree on the type of the static, so the value new() reads
   after a rotation is either the one of the declaration (the startup value)
   or the one of the guarded cell logout wrote. *)

\* the requests in flight, each a login (score_from_official) or a logout
Tasks == 1..MaxTasks

\* the values *USER_AGENT can yield in new()
UserAgentValues ==
    {Unwrap(user_agent)} \cup (IF IsSome(agent_rotated) THEN {Unwrap(agent_rotated)} ELSE {})

\* some logout has returned and no other holds the lock
RotationCompleted ==
    /\ \E u \in Tasks : agent_pc[u] = "logged_out"
    /\ agent_lock = Unlocked

InitAgent ==
    /\ user_agent \in {Some(ua) : ua \in UserAgents}
    /\ agent_lock = Unlocked
    /\ agent_rotated = None
    /\ agent_pc = [t \in Tasks |-> "idle"]
    /\ client_agent = [t \in Tasks |-> None]
    /\ seen_rotation = [t \in Tasks |-> None]
    /\ lock_at_read = [t \in Tasks |-> None]
    /\ GradeIdle
    /\ GpaIdle
    /\ SessIdle
    /\ WebIdle
    /\ LegacyIdle
    /\ IsoIdle

\* AAOWebsite::new() of a login request: Client::builder().user_agent(*USER_AGENT),
\* with no lock taken
AgentNew(t) ==
    /\ agent_pc[t] = "idle"
    /\ \E ua \in UserAgentValues :
          client_agent' = [client_agent EXCEPT ![t] = Some(ua)]
    /\ seen_rotation' =
          [seen_rotation EXCEPT ![t] = IF RotationCompleted THEN agent_rotated ELSE None]
    /\ lock_at_read' = [lock_at_read EXCEPT ![t] = Some(agent_lock)]
    /\ agent_pc' = [agent_pc EXCEPT ![t] = "built"]
    /\ UNCHANGED <<user_agent, agent_lock, agent_rotated>>
    /\ UNCHANGED <<grade_vars, gpa_vars, sess_vars, web_vars, legacy_vars, iso_vars>>

\* logout: session.delete().await, an error returns InternalError
LogoutDelete(t) ==
    /\ agent_pc[t] = "idle"
    /\ \E deleted \in BOOLEAN :
          agent_pc' = [agent_pc EXCEPT ![t] = IF deleted THEN "locking" ELSE "failed"]
    /\ UNCHANGED <<user_agent, agent_lock, agent_rotated, client_agent, seen_rotation,
                   lock_at_read>>
    /\ UNCHANGED <<grade_vars, gpa_vars, sess_vars, web_vars, legacy_vars, iso_vars>>

\* logout: USER_AGENT.lock().unwrap()
LogoutLock(t) ==
    /\ agent_pc[t] = "locking"
    /\ agent_lock = Unlocked
    /\ agent_lock' = t
    /\ agent_pc' = [agent_pc EXCEPT ![t] = "writing"]
    /\ UNCHANGED <<user_agent, agent_rotated, client_agent, seen_rotation, lock_at_read>>
    /\ UNCHANGED <<grade_vars, gpa_vars, sess_vars, web_vars, legacy_vars, iso_vars>>

\* logout: *user_agent_guard = get_rua().to_string()
LogoutWrite(t) ==
    /\ agent_pc[t] = "writing"
    /\ \E new_user_agent \in UserAgents : agent_rotated' = Some(new_user_agent)
    /\ agent_pc' = [agent_pc EXCEPT ![t] = "releasing"]
    /\ UNCHANGED <<user_agent, agent_lock, client_agent, seen_rotation, lock_at_read>>
    /\ UNCHANGED <<grade_vars, gpa_vars, sess_vars, web_vars, legacy_vars, iso_vars>>

\* logout: the guard goes out of scope, then Ok(Json({"success": true}))
LogoutRelease(t) ==
    /\ agent_pc[t] = "releasing"
    /\ agent_lock' = Unlocked
    /\ agent_pc' = [agent_pc EXCEPT ![t] = "logged_out"]
    /\ UNCHANGED <<user_agent, agent_rotated, client_agent, seen_rotation, lock_at_read>>
    /\ UNCHANGED <<grade_vars, gpa_vars, sess_vars, web_vars, legacy_vars, iso_vars>>

NextAgent ==
    \E t \in Tasks :
        \/ AgentNew(t)
        \/ LogoutDelete(t)
        \/ LogoutLock(t)
        \/ LogoutWrite(t)
        \/ LogoutRelease(t)

SpecAgent == InitAgent /\ [][NextAgent]_vars

----------------------------------------------------------------------------
(* SpecIsolation: concurrent score_from_official requests, each with the
   AAOWebsite it built; an await of one request can be followed by a step of
   another.  The requests belong to one browser session, whose record they
   all write at the end. *)

\* the scraper `let mut scraper = AAOWebsite::new()?` binds in a request, with
\* the requests it sent and what its steps returned
scraper_new ==
    [headers |-> init_headers, jar |-> {}, sent |-> <<>>, outcomes |-> <<>>]

\* one cookie store for every client of the process
CookieStore_process_wide(all, t) ==
    UNION {all[u].jar : u \in DOMAIN all}

\* Client::builder().cookie_store(true): the store of the client of request t
CookieStore(all, t) == all[t].jar

\* the scraper after init, login or get_grades received `answer`, its request
\* carrying the cookies `store`
scraper_step(sc, kind, answer, store) ==
    LET req == CASE kind = "init" ->
                      RequestOf("init", "GET", BASE_URL, sc.headers, FALSE, store)
                 [] kind = "login" ->
                      RequestOf("login", "POST", LOGIN_URL, sc.headers, TRUE, store)
                 [] kind = "grades" ->
                      RequestOf("grades", "POST", GRADES_URL, grades_builder_headers,
                                TRUE, store)
        outcome == CASE kind = "init" -> init_step(answer)
                     [] kind = "login" -> login_step(answer)
                     [] kind = "grades" -> grades_step(answer)
        h == CASE kind = "init" ->
                    IF outcome = "Ok" THEN HeaderInsert(sc.headers, "Referer", BASE_URL)
                    ELSE sc.headers
               [] kind = "login" ->
                    IF IsSome(answer)
                    THEN login_headers(sc.headers, outcome, Unwrap(answer).url)
                    ELSE sc.headers
               [] kind = "grades" -> sc.headers
    IN  [headers  |-> h,
         jar      |-> IF IsSome(answer) THEN store \cup Unwrap(answer).cookies ELSE store,
         sent     |-> Append(sc.sent, req),
         outcomes |-> Append(sc.outcomes, outcome)]

StepKinds == <<"init", "login", "grades">>

\* the answers of the portal to one request: a whole run with a second cookie
\* set at login, a whole run of another transcript, a rejected login, an init
\* answered without a cookie
IsolationScripts ==
    {[init   |-> Some([status |-> 200, cookies |-> {"JSESSIONID"}, url |-> BASE_URL,
                       body |-> None]),
      login  |-> Some([status |-> 200, cookies |-> {"SERVERID"}, url |-> MAIN_URL,
                       body |-> Some(<<"<html>", "<html>">>)]),
      grades |-> Some([status |-> 200, cookies |-> {}, url |-> GRADES_URL,
                       body |-> Some(<<HeaderRow, RowX85, RowX86>>)])],
     [init   |-> Some([status |-> 200, cookies |-> {"JSESSIONID"}, url |-> BASE_URL,
                       body |-> None]),
      login  |-> Some([status |-> 200, cookies |-> {}, url |-> LOGIN_URL,
                       body |-> Some(<<"<html>", "<html>">>)]),
      grades |-> Some([status |-> 200, cookies |-> {}, url |-> GRADES_URL,
                       body |-> Some(<<HeaderRow, RowY, RowTiYu>>)])],
     [init   |-> Some([status |-> 200, cookies |-> {"JSESSIONID"}, url |-> BASE_URL,
                       body |-> None]),
      login  |-> Some([status |-> 200, cookies |-> {}, url |-> LOGIN_URL,
                       body |-> Some(<<"<html>", "/yjlgxy_jsxsd/xk/", "LoginToXk">>)]),
      grades |-> None],
     [init   |-> Some([status |-> 200, cookies |-> {}, url |-> BASE_URL, body |-> None]),
      login  |-> None,
      grades |-> None]}

\* some other request is between its new() and its return
OthersInFlight(t) ==
    \E u \in Tasks \ {t} : scrapers[u].pc \in {"calling", "storing"}

InitIsolation ==
    /\ portal_script \in [Tasks -> IsolationScripts]
    /\ scrapers = [t \in Tasks |->
                      [pc |-> "start", next |-> 1, built |-> FALSE, sc |-> scraper_new,
                       courses |-> None, ret |-> "none", overlapped |-> FALSE]]
    /\ GradeIdle
    /\ GpaIdle
    /\ SessIdle
    /\ WebIdle
    /\ LegacyIdle
    /\ AgentIdle

\* score_from_official of request t: AAOWebsite::new()
IsoNew(t) ==
    /\ scrapers[t].pc = "start"
    /\ \E built \in BOOLEAN :
          scrapers' = [scrapers EXCEPT ![t] =
                          [@ EXCEPT !.pc = IF built THEN "calling" ELSE "failed",
                                    !.built = built,
                                    !.ret = IF built THEN "none" ELSE "InternalError",
                                    !.overlapped = OthersInFlight(t)]]
    /\ UNCHANGED <<portal_script, web_vars>>
    /\ UNCHANGED <<grade_vars, gpa_vars, sess_vars, legacy_vars, agent_vars>>

\* score_from_official of request t: the next of init().await?,
\* login().await?, get_grades().await?
IsoCall(t) ==
    /\ scrapers[t].pc = "calling"
    /\ LET me      == scrapers[t]
           kind    == StepKinds[me.next]
           answer  == portal_script[t][kind]
           stores  == [u \in Tasks |-> scrapers[u].sc]
           after   == scraper_step(me.sc, kind, answer, CookieStore(stores, t))
           outcome == after.outcomes[Len(after.outcomes)]
       IN  \E courses \in IF kind = "grades" /\ outcome = "Ok"
                          THEN {Some(c) : c \in IntoValues(
                                    ExtractCourses(Unwrap(Unwrap(answer).body)))}
                          ELSE {None} :
              scrapers' = [scrapers EXCEPT ![t] =
                  [@ EXCEPT !.sc = after,
                            !.courses = courses,
                            !.next = IF proceeds(outcome) /\ me.next < 3
                                     THEN me.next + 1 ELSE me.next,
                            !.pc = IF ~proceeds(outcome) THEN "failed"
                                   ELSE IF me.next < 3 THEN "calling" ELSE "storing",
                            !.ret = IF ~proceeds(outcome) THEN outcome ELSE "none",
                            !.overlapped = me.overlapped \/ OthersInFlight(t)]]
    /\ UNCHANGED <<portal_script, web_vars>>
    /\ UNCHANGED <<grade_vars, gpa_vars, sess_vars, legacy_vars, agent_vars>>

\* score_from_official of request t: the GPA engine and the five inserts
IsoStore(t) ==
    /\ scrapers[t].pc = "storing"
    /\ web_session' =
          official_inserts(web_session,
              process_scraped_course_results(Unwrap(scrapers[t].courses),
                                             "OfficialWebsite"))
    /\ scrapers' = [scrapers EXCEPT ![t] =
                       [@ EXCEPT !.pc = "done", !.ret = "Ok",
                                 !.overlapped = @ \/ OthersInFlight(t)]]
    /\ UNCHANGED <<portal_script, web_handler, web_ret, web_courses, web_status,
                   web_steps, web_reply>>
    /\ UNCHANGED <<grade_vars, gpa_vars, sess_vars, legacy_vars, agent_vars>>

NextIsolation ==
    \E t \in Tasks :
        \/ IsoNew(t)
        \/ IsoCall(t)
        \/ IsoStore(t)

SpecIsolation == InitIsolation /\ [][NextIsolation]_vars

----------------------------------------------------------------------------
(* SpecLegacy: utils::score_trans_grade applied to every bounded score text *)

InitLegacy == InitGrade

ScoreTransGradeLegacy ==
    /\ ~legacy_called
    /\ legacy_called' = TRUE
    /\ grade_legacy' = utils_score_trans_grade(score)
    /\ UNCHANGED <<grade_vars, gpa_vars, sess_vars, web_vars, agent_vars, iso_vars>>

NextLegacy == ScoreTransGradeLegacy

SpecLegacy == InitLegacy /\ [][NextLegacy]_vars

----------------------------------------------------------------------------
(* The claims about the grade conversion table *)

ScoreIsNumeric == ~IsSome(score_label(score)) /\ IsSome(ParseDecimal(score))

ScoreValue == Unwrap(ParseDecimal(score))

BandBoundaries == <<60, 64, 67, 70, 74, 77, 80, 83, 87, 90, 95>>

BandPoints == <<0, 133, 167, 200, 233, 267, 300, 333, 367, 400, 433, 467>>

\* the band value of the table: one band up for every boundary b with b <= s
TablePoint(s) ==
    BandPoints[1 + Cardinality({i \in 1..Len(BandBoundaries) :
                                    ~DecLtInt(s, BandBoundaries[i])})]

\* C1: for every numeric score s with 0 <= s <= 100 score_trans_grade returns
\* the band value of the table, each boundary belonging to the higher band and
\* 100 yielding 4.67.
C1_BandTable ==
    (grade_called /\ ScoreIsNumeric
        /\ DecLeInt(ScoreValue, 100) /\ ~DecLtInt(ScoreValue, 0))
    => grade_out = Some(TablePoint(ScoreValue))

C1_Witness ==
    grade_called /\ score = <<"1", "0", "0">> /\ grade_out = Some(467)

\* C2: score_trans_grade returns None for every numeric score text whose value
\* is below 0 or above 100.
C2_OutOfRangeIsNone ==
    (grade_called /\ ScoreIsNumeric
        /\ (DecLtInt(ScoreValue, 0) \/ ~DecLeInt(ScoreValue, 100)))
    => grade_out = None

----------------------------------------------------------------------------
(* The end-to-end claims about the GPA engine *)

CalculusAndPE ==
    <<MakeCourse(NameCalculus, <<>>, <<"9", "2">>, <<"4">>),
      MakeCourse(NamePE, <<>>, <<"8", "0">>, <<"1">>)>>

CalculusAndTiYu ==
    <<MakeCourse(NameCalculus, <<>>, <<"9", "2">>, <<"4">>),
      MakeCourse(NameTiYu, <<>>, <<"8", "0">>, <<"1">>)>>

GpaDone == IsSome(gpa_results) /\ gpa_source = "OfficialWebsite"

DefaultResult == Unwrap(Unwrap(gpa_results).default)

AllResult == Unwrap(gpa_results).all

\* C3 as stated: for Calculus (credit 4, score "92") and PE (credit 1, score
\* "80") the Default-mode computation returns [Calculus] only and gpa 4.33.
C3_DefaultDropsPE ==
    (GpaDone /\ gpa_input = CalculusAndPE)
    => /\ DefaultResult.courses = <<CalculusAndPE[1]>>
       /\ DefaultResult.gpa = 433

\* C3 as amended: the Default-mode computation returns [Calculus] only and gpa
\* 4.33 when the second course is named with a keyword of
\* EXCLUDED_COURSES_KEYWORD ("体育"); for the name "PE", which contains no
\* keyword, both courses survive and gpa = round2((4*4.33 + 1*3.33)/5) = 4.13.
C3_DefaultDropsKeywordCourse ==
    /\ (GpaDone /\ gpa_input = CalculusAndTiYu)
       => /\ DefaultResult.courses = <<CalculusAndTiYu[1]>>
          /\ DefaultResult.gpa = 433
    /\ (GpaDone /\ gpa_input = CalculusAndPE)
       => /\ DefaultResult.courses = CalculusAndPE
          /\ DefaultResult.gpa = 413

C3_Witness ==
    GpaDone /\ gpa_input = CalculusAndTiYu /\ Len(DefaultResult.courses) = 1

\* C4 as stated: for the same input the All-mode computation returns both
\* courses, PE has grade point 3.00, and gpa = 3.86.
C4_AllModeGpa386 ==
    (GpaDone /\ gpa_input = CalculusAndPE)
    => /\ AllResult.courses = CalculusAndPE
       /\ AllResult.courses[2].grade = 300
       /\ AllResult.gpa = 386

\* C4 as amended: the All-mode computation returns both courses, PE (score
\* "80", a boundary of the higher band) has grade point 3.33, and
\* gpa = round2((4*4.33 + 1*3.33)/5) = 4.13.
C4_AllModeGpa413 ==
    (GpaDone /\ gpa_input = CalculusAndPE)
    => /\ AllResult.courses = CalculusAndPE
       /\ AllResult.courses[1].grade = 433
       /\ AllResult.courses[1].credit_gpa = 1732
       /\ AllResult.courses[2].grade = 333
       /\ AllResult.courses[2].credit_gpa = 333
       /\ AllResult.gpa = 413

C4_Witness ==
    GpaDone /\ gpa_input = CalculusAndPE /\ Len(AllResult.courses) = 2

----------------------------------------------------------------------------
(* The claims about the scraping session *)

LoginSucceeded == IsSome(login_final_url)

\* C5: the grades request carries the accumulated header state: its Referer
\* is the final URL of the successful login response and it includes
\* X-Requested-With: XMLHttpRequest, alongside Content-Type and Accept.
C5_GradesRequestCarriesHeaders ==
    (last_call = "grades" /\ init_ok /\ LoginSucceeded
        /\ headers["Referer"] = Unwrap(login_final_url))
    => LET h == Unwrap(last_req).headers
       IN  /\ {"Referer", "X-Requested-With", "Content-Type", "Accept"} \subseteq DOMAIN h
           /\ h["Referer"] = Unwrap(login_final_url)
           /\ h["X-Requested-With"] = "XMLHttpRequest"
           /\ h["Content-Type"] = FORM_CONTENT_TYPE
           /\ h["Accept"] = "*/*"

\* C6: whatever the sequence of calls on an AAOWebsite value, the login
\* request is never sent unless an earlier init succeeded, and the grades
\* request is never sent unless an earlier login succeeded.
C6_NoOutOfOrderRequest ==
    /\ (last_call = "login" /\ IsSome(last_req)) => init_ok
    /\ (last_call = "grades" /\ IsSome(last_req)) => LoginSucceeded

\* C7: a login that receives a success status with the failure marker in the
\* body returns LoginFailed, never Ok, and leaves the session unauthenticated:
\* the header set (Referer, X-Requested-With) is as before the call.
C7_MarkerRejectsLogin ==
    [][(/\ last_call' = "login"
        /\ IsSome(last_resp')
        /\ is_success(Unwrap(last_resp').status)
        /\ IsSome(Unwrap(last_resp').body)
        /\ Contains(Unwrap(Unwrap(last_resp').body), login_failure_indicator))
       => (/\ last_ret' = "LoginFailed"
           /\ headers' = headers
           /\ login_final_url' = login_final_url)]_vars

C7_Witness ==
    /\ last_call = "login"
    /\ last_ret = "LoginFailed"
    /\ init_ok
    /\ IsSome(last_resp)
    /\ Unwrap(last_resp).status = 200
    /\ Unwrap(last_resp).body = Some(<<"<html>", "/yjlgxy_jsxsd/xk/", "LoginToXk">>)
    /\ "X-Requested-With" \notin DOMAIN headers
    /\ headers["Referer"] = BASE_URL

----------------------------------------------------------------------------
(* The claims about grade extraction *)

GradesOk == last_call = "grades" /\ last_ret = "Ok"

ServedDocument == Unwrap(Unwrap(last_resp).body)

\* the rows after the first one
ServedRows == IF ServedDocument = <<>> THEN <<>> ELSE Tail(ServedDocument)

RECURSIVE RowCourses(_)
\* RowCourse of each row, in document order
RowCourses(rows) ==
    IF rows = <<>> THEN <<>> ELSE <<RowCourse(Head(rows))>> \o RowCourses(Tail(rows))

\* the rows of `attempts` that yield a Course named `name`
AttemptsOf(attempts, name) ==
    {i \in 1..Len(attempts) : IsSome(attempts[i]) /\ attempts[i][1].name = name}

\* the earliest attempt among those of the highest grade point
BestAttempt(attempts, name) ==
    LET mine == AttemptsOf(attempts, name)
    IN  CHOOSE i \in mine :
            \A j \in mine :
                \/ attempts[j][1].grade < attempts[i][1].grade
                \/ (attempts[j][1].grade = attempts[i][1].grade /\ i <= j)

ReturnedCourses == {course_list[k] : k \in 1..Len(course_list)}

\* C8: the output of get_grades holds exactly one Course per distinct course
\* name of the valid rows, the attempt with the highest grade point, and among
\* attempts sharing the highest grade point the earliest row.
C8_BestAttemptKept ==
    GradesOk =>
        LET attempts == RowCourses(ServedRows)
            names    == {attempts[i][1].name :
                            i \in {k \in 1..Len(attempts) : IsSome(attempts[k])}}
        IN  /\ Len(course_list) = Cardinality(names)
            /\ ReturnedCourses =
                   {attempts[BestAttempt(attempts, n)][1] : n \in names}

C8_Witness ==
    /\ GradesOk
    /\ ServedDocument = <<HeaderRow, RowX70, RowX85, RowX86>>
    /\ course_list = <<Unwrap(RowCourse(RowX85))>>

MapValues(courses_record) == {courses_record[n] : n \in DOMAIN courses_record}

Reordered(rows, p) == [i \in 1..Len(rows) |-> rows[p[i]]]

\* C9: the result of grade extraction does not depend on row order: every
\* reordering of the data rows yields the same set of Course records.
C9_RowOrderIrrelevant ==
    GradesOk =>
        \A p \in Permutations(1..Len(ServedRows)) :
            MapValues(ExtractCourses(<<HeaderRow>> \o Reordered(ServedRows, p)))
                = ReturnedCourses

\* C10: every Course returned by get_grades has a non-empty name.
C10_NamesNonEmpty ==
    GradesOk => \A k \in 1..Len(course_list) : course_list[k].name # <<>>

\* C11: every Course returned by get_grades has credit >= 0: a row whose
\* credit text is a negative number such as "-2" is skipped and never produces
\* a Course.
C11_CreditsNonNegative ==
    GradesOk =>
        /\ \A k \in 1..Len(course_list) : course_list[k].credit.m >= 0
        /\ \A i \in 1..Len(ServedRows) :
               ServedRows[i] = RowNegCredit
                   => \A k \in 1..Len(course_list) : course_list[k].name # <<"N">>

----------------------------------------------------------------------------
(* The claims about the GPA engine over every bounded course list *)

GpaCalled == IsSome(gpa_results)

\* the GPA results the call produced: All, and Default when it is present
ProducedResults ==
    {AllResult} \cup
        (IF IsSome(Unwrap(gpa_results).default) THEN {DefaultResult} ELSE {})

CourseSet(cs) == {cs[i] : i \in 1..Len(cs)}

CourseZ == MakeCourse(<<"Z">>, <<>>, <<"8", "5">>, <<"0">>)

CourseLab == MakeCourse(<<"L", "a", "b">>, <<>>, <<"7", "7">>, <<"0", ".", "5">>)

CourseRuXue == MakeCourse(<<"ru", "xue", "jiao", "yu4">>, <<>>, LabelHeGe, <<"1">>)

CourseArtElective ==
    MakeCourse(<<"A", "r", "t">>, <<"gong", "gong4", "xuan", "xiu", "ke">>, LabelLiang, <<"2">>)

CourseArtOtherNature ==
    MakeCourse(<<"A", "r", "t">>, <<"gong", "gong4", "xuan", "xiu">>, <<"6", "0">>, <<"2">>)

CourseInternship == MakeCourse(<<"bi", "ye", "shi_real", "xi">>, <<>>, LabelYou, <<"6">>)

\* C13: the gpa of every result equals round2(sum of credit_gpa / sum of
\* credit) taken over exactly the returned course list, whenever that list's
\* total credit is positive.
C13_GpaOverSurvivors ==
    GpaCalled =>
        \A r \in ProducedResults :
            LET total == SumCredit(r.courses)
            IN  total.m > 0
                => r.gpa = RoundHalfEven(SumCreditGpa(r.courses) * Pow10(total.e), total.m)

C13_Witness ==
    /\ GpaDone
    /\ gpa_input = CalculusAndTiYu
    /\ AllResult.gpa = 413
    /\ DefaultResult.gpa = 433

\* C14: the gpa is 0 whenever the included course set has total credit 0: an
\* empty input, an input filtered out entirely, and a non-empty surviving set
\* whose credits are all zero.
C14_ZeroCreditGpaZero ==
    GpaCalled =>
        \A r \in ProducedResults :
            SumCredit(r.courses).m = 0 => r.gpa = 0

C14_Witness ==
    /\ GpaDone
    /\ gpa_input = <<CourseZ, CourseInternship>>
    /\ AllResult.courses = gpa_input
    /\ AllResult.gpa = 433
    /\ DefaultResult.courses = <<CourseZ>>
    /\ DefaultResult.gpa = 0

\* C15: for any course list and any permutation of it the engine returns, in
\* the same mode, the same gpa and the same set of surviving courses.
C15_OrderIndependent ==
    GpaCalled =>
        \A p \in Permutations(1..Len(gpa_input)) :
            LET again == process_scraped_course_results(Reordered(gpa_input, p), gpa_source)
            IN  /\ again.all.gpa = AllResult.gpa
                /\ CourseSet(again.all.courses) = CourseSet(AllResult.courses)
                /\ IsSome(again.default) = IsSome(Unwrap(gpa_results).default)
                /\ IsSome(again.default)
                   => /\ again.default[1].gpa = DefaultResult.gpa
                      /\ CourseSet(again.default[1].courses) = CourseSet(DefaultResult.courses)

C15_Witness ==
    /\ GpaDone
    /\ gpa_input = <<CourseLab, CalculusAndPE[1], CourseArtElective>>
    /\ AllResult.gpa = 392
    /\ DefaultResult.gpa = 418

\* C16: the Default-mode surviving list is a subset of the All-mode surviving
\* list, and neither holds a course whose name is on the permanent blocklist.
C16_DefaultWithinAll ==
    GpaDone =>
        /\ CourseSet(DefaultResult.courses) \subseteq CourseSet(AllResult.courses)
        /\ \A c \in CourseSet(DefaultResult.courses) \cup CourseSet(AllResult.courses) :
               c.name \notin PERMANENT_IGNORED_COURSES

C16_Witness ==
    /\ GpaDone
    /\ gpa_input = <<CourseRuXue, CourseArtElective, CalculusAndPE[1]>>
    /\ AllResult.courses = <<CourseArtElective, CalculusAndPE[1]>>
    /\ DefaultResult.courses = <<CalculusAndPE[1]>>

\* the Default-mode rule as the claim words it
SurvivesDefault(c) ==
    /\ \A b \in PERMANENT_IGNORED_COURSES : c.name # b
    /\ \A k \in EXCLUDED_COURSES_KEYWORD : ~Contains(c.name, k)
    /\ \A n \in NATURE_EXCLUSIONS : c.nature # n

\* C17: a course survives Default mode if and only if its name is not exactly
\* a blocklisted name, its name contains no category keyword as a substring and
\* its nature is not exactly one of the excluded elective labels; a course with
\* an empty nature is never dropped on account of its nature.
C17_DefaultFilterRule ==
    GpaDone =>
        /\ DefaultResult.courses = SelectSeq(gpa_input, SurvivesDefault)
        /\ \A i \in 1..Len(gpa_input) :
               (/\ gpa_input[i].nature = <<>>
                /\ gpa_input[i].name \notin PERMANENT_IGNORED_COURSES
                /\ \A k \in EXCLUDED_COURSES_KEYWORD : ~Contains(gpa_input[i].name, k))
               => gpa_input[i] \in CourseSet(DefaultResult.courses)

C17_Witness ==
    /\ GpaDone
    /\ gpa_input = <<CourseArtOtherNature, CourseArtElective, CourseInternship>>
    /\ DefaultResult.courses = <<CourseArtOtherNature>>

----------------------------------------------------------------------------
(* The claims about labels and monotonicity of the grade conversion *)

\* C18: the exact labels map to fixed points ("不及格"/"不合格" -> 0.00,
\* "及格"/"合格" -> 1.00, "中" -> 2.33, "良" -> 3.33, "优" -> 4.33), and every
\* text that is neither a label nor parseable as a decimal, the empty string
\* included, yields None.
C18_LabelsThenNumbers ==
    grade_called =>
        /\ score \in {LabelBuJiGe, LabelBuHeGe} => grade_out = Some(0)
        /\ score \in {LabelJiGe, LabelHeGe} => grade_out = Some(100)
        /\ score = LabelZhong => grade_out = Some(233)
        /\ score = LabelLiang => grade_out = Some(333)
        /\ score = LabelYou => grade_out = Some(433)
        /\ (score \notin GradeLabels /\ ~IsSome(ParseDecimal(score))) => grade_out = None
        /\ score = <<>> => grade_out = None

C18_Witness ==
    grade_called /\ score = <<"liang", "hao">> /\ grade_out = None

\* the scores -2.0, -1.5, ..., 102.0 as numbers of halves
HalfSteps == (0 - 4)..204

\* C19: score_trans_grade is monotonically non-decreasing on numeric scores:
\* for numeric s1 <= s2 that both get a grade point, grade(s1) <= grade(s2).
\* Each score text is compared with every score of HalfSteps.
C19_Monotone ==
    (grade_called /\ ScoreIsNumeric /\ IsSome(grade_out)) =>
        LET twice == 2 * ScoreValue.m
            unit  == Pow10(ScoreValue.e)
            mine  == grade_out[1]
        IN  \A k \in HalfSteps :
                LET other == score_bands([m |-> 5 * k, e |-> 1])
                IN  IsSome(other) =>
                        /\ k * unit <= twice => other[1] <= mine
                        /\ twice <= k * unit => mine <= other[1]

C19_Witness ==
    grade_called /\ score = <<"7", "9", ".", "9">> /\ grade_out = Some(300)

----------------------------------------------------------------------------
(* The claims about init *)

\* C20: init returns HttpRequest on a transport failure or a non-success
\* status, CookieInvalid on a success status with no cookie in the response,
\* and Ok only on a success status with at least one cookie; only then is
\* Referer set to the URL of the page it fetched, and on a failure the header
\* set is left as it was.
C20_InitClassification ==
    [][last_call' = "init" =>
        /\ Unwrap(last_req').url = BASE_URL
        /\ ~IsSome(last_resp')
           => last_ret' = "HttpRequest"
        /\ (IsSome(last_resp') /\ ~is_success(Unwrap(last_resp').status))
           => last_ret' = "HttpRequest"
        /\ (/\ IsSome(last_resp')
            /\ is_success(Unwrap(last_resp').status)
            /\ Unwrap(last_resp').cookies = {})
           => last_ret' = "CookieInvalid"
        /\ (/\ IsSome(last_resp')
            /\ is_success(Unwrap(last_resp').status)
            /\ Unwrap(last_resp').cookies # {})
           => last_ret' = "Ok"
        /\ last_ret' = "Ok"
           => /\ headers' = HeaderInsert(headers, "Referer", BASE_URL)
              /\ headers'["Referer"] = Unwrap(last_req').url
        /\ last_ret' # "Ok" => headers' = headers
      ]_vars

C20_Witness ==
    /\ last_call = "init"
    /\ last_ret = "CookieInvalid"
    /\ Unwrap(last_resp).status = 200
    /\ Unwrap(last_resp).cookies = {}
    /\ headers = init_headers

----------------------------------------------------------------------------
(* The claims about the result sets of the data requests *)

\* credit_gpa == round2(credit * grade)
WeightedPointHolds(c) ==
    c.credit_gpa = RoundHalfEven(c.credit.m * c.grade, Pow10(c.credit.e))

\* the courses of every result set at hand: the list the last handler built
\* from its source and the lists stored in the web session
ResultSetCourses ==
    (IF IsSome(web_courses) THEN CourseSet(Unwrap(web_courses)) ELSE {})
        \cup UNION {CourseSet(web_session[k]) :
                        k \in DOMAIN web_session \cap {"courses_all", "courses_default"}}

\* C12: every Course of every result set (extraction output, file-upload rows,
\* the course lists of the All and Default results) satisfies
\* credit_gpa == round2(credit * grade), and the stored lists hold only courses
\* some source produced with that grade and weighted point.
C12_WeightedPoint ==
    /\ \A c \in ResultSetCourses : WeightedPointHolds(c)
    /\ (web_ret = "Ok" /\ IsSome(web_courses))
       => \A k \in {"courses_all"} \cup
                   (IF web_handler = "score_from_official" THEN {"courses_default"} ELSE {}) :
              CourseSet(web_session[k]) \subseteq CourseSet(Unwrap(web_courses))

C12_Witness ==
    /\ web_handler = "score_from_official"
    /\ web_ret = "Ok"
    /\ Len(Unwrap(web_courses)) = 2
    /\ \E c \in CourseSet(web_session["courses_default"]) :
           c.name = <<"Y">> /\ c.grade = 433 /\ c.credit = [m |-> 15, e |-> 1]
               /\ c.credit_gpa = 650

----------------------------------------------------------------------------
(* The claims about the handlers of the data requests *)

\* C21: LoginFailed maps to status 401 and no other error variant does; the
\* other scraping errors map to 500 and the file errors to 400.
C21_LoginFailedAlone401 ==
    /\ \A e \in WebErrors :
          /\ web_error_status(e) = 401 <=> e = "LoginFailed"
          /\ e \in WebScrapingErrors \ {"LoginFailed"} => web_error_status(e) = 500
          /\ e \in FileErrors => web_error_status(e) = 400
    /\ web_handler # "none" =>
          /\ web_status = 401 <=> web_ret = "LoginFailed"
          /\ web_ret \in WebScrapingErrors \ {"LoginFailed"} => web_status = 500
          /\ web_ret \in FileErrors => web_status = 400

C21_Witness ==
    /\ web_handler = "score_from_official"
    /\ web_ret = "LoginFailed"
    /\ web_status = 401

\* the requests of one grade request, in order
OfficialOrder ==
    <<[kind |-> "init", method |-> "GET"],
      [kind |-> "login", method |-> "POST"],
      [kind |-> "grades", method |-> "POST"]>>

\* C22: score_from_official sends at most one request per step, in the order
\* GET init, POST login, POST grades; after a step failed no later request is
\* sent, nothing is sent again, and the handler returns that step's error.
C22_OneRequestPerStepInOrder ==
    web_handler = "score_from_official" =>
        /\ Len(web_steps) <= Len(OfficialOrder)
        /\ \A i \in 1..Len(web_steps) :
              /\ web_steps[i].kind = OfficialOrder[i].kind
              /\ web_steps[i].method = OfficialOrder[i].method
              /\ i < Len(web_steps) => web_steps[i].outcome = "Ok"
        /\ web_steps # <<>> => web_steps[Len(web_steps)].outcome = web_ret
        /\ web_steps = <<>> => web_ret = "InternalError"
        /\ web_ret = "Ok" => Len(web_steps) = Len(OfficialOrder)

C22_Witness ==
    /\ web_handler = "score_from_official"
    /\ web_ret = "LoginFailed"
    /\ web_steps = <<Step("init", "GET", "Ok"), Step("login", "POST", "LoginFailed")>>

\* C25: an upload without a usable row makes score_from_file return
\* NoValidDataFound (HTTP 400), never Ok, and the web session is exactly as
\* before the request.
C25_EmptyUploadWritesNothing ==
    [][web_handler' = "score_from_file" =>
        /\ web_ret' \in {"Ok", "OpenError", "NoValidDataFound"}
        /\ web_ret' = "Ok" => (IsSome(web_courses') /\ Unwrap(web_courses') # <<>>)
        /\ web_ret' = "NoValidDataFound"
           => /\ web_status' = 400
              /\ web_session' = web_session
      ]_vars

C25_Witness ==
    /\ web_handler = "score_from_file"
    /\ web_ret = "NoValidDataFound"
    /\ web_status = 400
    /\ SessionGet(web_session, "result_mode", "none") = "login"
    /\ SessionGet(web_session, "courses_all", <<>>) # <<>>

\* C26: in a web session whose latest successful data request was a file
\* upload (result_mode = "file") a /recalc request with a mode other than
\* "all" returns gpa 0 and an empty course list.
C26_FileSessionHasNoDefault ==
    (/\ web_handler = "next_result"
     /\ SessionGet(web_session, "result_mode", "none") = "file"
     /\ Unwrap(web_reply).mode # "all")
    => /\ Unwrap(web_reply).gpa = 0
       /\ Unwrap(web_reply).courses = <<>>

----------------------------------------------------------------------------
(* The claims about the result sources *)

OtherSource == IF gpa_source = "OfficialWebsite" THEN "InputFile" ELSE "OfficialWebsite"

\* C23: process_scraped_course_results returns a Default result if and only
\* if the source is OfficialWebsite; the All result is always present and, for
\* the same course list, is the same for both sources.
C23_DefaultOnlyForOfficial ==
    GpaCalled =>
        /\ IsSome(Unwrap(gpa_results).default) <=> gpa_source = "OfficialWebsite"
        /\ gpa_source = "InputFile" => Unwrap(gpa_results).default = None
        /\ DOMAIN AllResult = {"gpa", "courses"}
        /\ AllResult = process_scraped_course_results(gpa_input, OtherSource).all

C23_Witness ==
    /\ GpaCalled
    /\ gpa_source = "InputFile"
    /\ gpa_input = <<CourseArtElective, CourseInternship>>
    /\ Unwrap(gpa_results).default = None
    /\ AllResult.courses = gpa_input

----------------------------------------------------------------------------
(* The claims about the effects and the classification of login *)

\* the response of the step is one login accepts: delivered, success status,
\* body read, no failure marker in it
LoginAccepted(answer) ==
    /\ IsSome(answer)
    /\ is_success(Unwrap(answer).status)
    /\ IsSome(Unwrap(answer).body)
    /\ ~Contains(Unwrap(Unwrap(answer).body), login_failure_indicator)

\* C27: login changes the header set only on success: after a transport
\* error, a non-success status or a body with the failure marker the header
\* set is the one before the call; after a success Referer is the final URL of
\* the response and X-Requested-With is XMLHttpRequest. X-Requested-With is
\* present only if some login on the session succeeded.
C27_LoginHeadersOnlyOnSuccess ==
    /\ []("X-Requested-With" \in DOMAIN headers => LoginSucceeded)
    /\ [][last_call' = "login" =>
            IF LoginAccepted(last_resp')
            THEN /\ last_ret' = "Ok"
                 /\ DOMAIN headers' = DOMAIN headers \cup {"Referer", "X-Requested-With"}
                 /\ headers'["Referer"] = Unwrap(last_resp').url
                 /\ headers'["X-Requested-With"] = "XMLHttpRequest"
                 /\ \A n \in DOMAIN headers \ {"Referer", "X-Requested-With"} :
                        headers'[n] = headers[n]
            ELSE /\ last_ret' # "Ok"
                 /\ headers' = headers]_vars

C27_Witness ==
    /\ last_call = "login"
    /\ last_ret = "Ok"
    /\ Unwrap(last_resp).url = MAIN_URL
    /\ headers["Referer"] = MAIN_URL
    /\ headers["X-Requested-With"] = "XMLHttpRequest"
    /\ headers["Accept"] = "*/*"

\* C28: login classifies by the HTTP status first: a non-success status
\* yields HttpRequest (rendered as 500), never LoginFailed, even when the body
\* holds the failure marker; LoginFailed is returned only for a success status
\* whose body holds the marker.
C28_StatusBeforeMarker ==
    /\ web_error_status("HttpRequest") = 500
    /\ (last_call = "login" /\ IsSome(last_resp)) =>
          LET resp == Unwrap(last_resp)
          IN  /\ ~is_success(resp.status) => last_ret = "HttpRequest"
              /\ last_ret = "LoginFailed" =>
                    /\ is_success(resp.status)
                    /\ IsSome(resp.body)
                    /\ Contains(Unwrap(resp.body), login_failure_indicator)
    /\ (last_call = "login" /\ ~IsSome(last_resp)) => last_ret = "HttpRequest"

C28_Witness ==
    /\ last_call = "login"
    /\ IsSome(last_resp)
    /\ Unwrap(last_resp).status = 404
    /\ Unwrap(last_resp).body = Some(<<"<html>", "/yjlgxy_jsxsd/xk/", "LoginToXk">>)
    /\ last_ret = "HttpRequest"

----------------------------------------------------------------------------
(* The claims about the rows grade extraction skips *)

\* the response of the grades request was delivered whole with a success status
GradesDelivered ==
    /\ last_call = "grades"
    /\ IsSome(last_resp)
    /\ is_success(Unwrap(last_resp).status)
    /\ IsSome(Unwrap(last_resp).body)

\* the cells of the row tds are those the Course c was read from
RowYields(tds, c) ==
    /\ Len(tds) >= 12
    /\ c.name = Trim(tds[4])
    /\ c.score = Trim(tds[5])
    /\ c.nature = Trim(tds[12])
    /\ ParseDecimal(Trim(tds[7])) = Some(c.credit)

\* C29: row-level anomalies never fail extraction: for every body delivered
\* with a success status get_grades returns Ok; the first table row is never
\* turned into a Course even if its cells are valid, a row with fewer than 12
\* cells never produces a Course, and a body with no valid row yields Ok with
\* an empty list.
C29_RowAnomaliesNeverFail ==
    GradesDelivered =>
        LET doc == ServedDocument
        IN  /\ last_ret = "Ok"
            /\ \A k \in 1..Len(course_list) :
                   \E i \in 2..Len(doc) : RowYields(doc[i], course_list[k])
            /\ (\A i \in 2..Len(doc) : ~IsSome(RowCourse(doc[i])))
                   => course_list = <<>>

C29_Witness ==
    /\ GradesDelivered
    /\ ServedDocument = <<RowX86, RowShort, RowY>>
    /\ last_ret = "Ok"
    /\ Len(course_list) = 1
    /\ course_list[1].name = <<"Y">>

----------------------------------------------------------------------------
(* The claims about the two copies of the grade conversion *)

\* the text is a number of value exactly 100
IsHundred(t) ==
    /\ ~IsSome(score_label(t))
    /\ IsSome(ParseDecimal(t))
    /\ DecLeInt(Unwrap(ParseDecimal(t)), 100)
    /\ ~DecLtInt(Unwrap(ParseDecimal(t)), 100)

\* C30: the two score_trans_grade implementations (business.rs and utils.rs)
\* differ only at the top of the scale: for every text other than a number
\* equal to 100 they return the same result, and for 100 business.rs returns
\* 4.67 while utils.rs returns None.
C30_CopiesDifferOnlyAtHundred ==
    legacy_called =>
        IF IsHundred(score)
        THEN score_trans_grade(score) = Some(467) /\ grade_legacy = None
        ELSE grade_legacy = score_trans_grade(score)

C30_Witness ==
    /\ legacy_called
    /\ score = <<"1", "0", "0">>
    /\ grade_legacy = None
    /\ score_trans_grade(score) = Some(467)

----------------------------------------------------------------------------
(* The claims about the process-wide user-agent *)

\* C24: the process-wide user-agent is guarded by one lock: new() reads it
\* under the lock and logout rewrites it under the same lock, so a new
\* session's user-agent is the value before a rotation or the value after it,
\* and a session constructed after a logout has completed uses the rotated
\* value.
C24_UserAgentUnderLock ==
    \A t \in DOMAIN agent_pc :
        agent_pc[t] = "built" =>
            /\ lock_at_read[t] = Some(t)
            /\ IsSome(seen_rotation[t]) => client_agent[t] = seen_rotation[t]

----------------------------------------------------------------------------
(* The claims about the results kept in the web session *)

ResultKeys == {"gpa_default", "courses_default", "gpa_all", "courses_all", "result_mode"}

\* the web session holds none of the result keys
NoResults(record) == ResultKeys \cap DOMAIN record = {}

\* the reply is the redirect to the login page
RedirectsToLogin(reply) ==
    IsSome(reply) /\ Unwrap(reply) = [kind |-> "redirect", to |-> "/"]

\* C32: after a successful score_from_official request whose extraction
\* returned at least one course, the next GET /result in that web session
\* renders the results page rather than redirecting to the login page with a
\* flash message.
C32_ResultPageAfterOfficial ==
    [][(/\ web_handler = "score_from_official"
        /\ web_ret = "Ok"
        /\ IsSome(web_courses)
        /\ Unwrap(web_courses) # <<>>
        /\ web_handler' = "first_result")
       => (/\ IsSome(web_reply')
           /\ Unwrap(web_reply').kind = "page"
           /\ "flash_msg" \in DOMAIN web_session' => "flash_msg" \in DOMAIN web_session)]_vars

\* C33: a failed grade request does not disturb stored results: when
\* score_from_official fails, gpa_default, courses_default, gpa_all,
\* courses_all and result_mode keep the values of the last successful request
\* (or stay absent), and a successful request overwrites all five together.
C33_FailureKeepsResults ==
    [][web_handler' = "score_from_official" =>
          IF web_ret' = "Ok"
          THEN LET results == process_scraped_course_results(
                                  Unwrap(web_courses'), "OfficialWebsite")
               IN  /\ ResultKeys \subseteq DOMAIN web_session'
                   /\ web_session'["gpa_default"] = Unwrap(results.default).gpa
                   /\ web_session'["courses_default"] = Unwrap(results.default).courses
                   /\ web_session'["gpa_all"] = results.all.gpa
                   /\ web_session'["courses_all"] = results.all.courses
                   /\ web_session'["result_mode"] = "login"
          ELSE /\ web_ret' \in WebScrapingErrors \cup {"InternalError"}
               /\ \A k \in ResultKeys :
                     /\ k \in DOMAIN web_session' <=> k \in DOMAIN web_session
                     /\ k \in DOMAIN web_session => web_session'[k] = web_session[k]]_vars

C33_Witness ==
    /\ web_handler = "score_from_official"
    /\ web_ret = "LoginFailed"
    /\ Len(web_steps) = 2
    /\ ResultKeys \subseteq DOMAIN web_session
    /\ web_session["result_mode"] = "login"
    /\ Len(web_session["courses_default"]) = 1
    /\ web_session["gpa_default"] = 367

\* a data request that stores results is taking place
StoresResults ==
    web_handler' \in {"score_from_official", "score_from_file"} /\ web_ret' = "Ok"

\* C34: after logout completes the web session holds no results: until a new
\* successful login or upload, GET /result redirects to the login page and
\* /recalc returns gpa 0 with an empty course list for every mode.
C34_NoResultsAfterLogout ==
    [][/\ (web_handler' = "logout" /\ web_ret' = "Ok") => NoResults(web_session')
       /\ (NoResults(web_session) /\ ~StoresResults) => NoResults(web_session')
       /\ (NoResults(web_session) /\ web_handler' = "first_result")
             => RedirectsToLogin(web_reply')
       /\ (NoResults(web_session) /\ web_handler' = "next_result")
             => /\ IsSome(web_reply')
                /\ Unwrap(web_reply').gpa = 0
                /\ Unwrap(web_reply').courses = <<>>]_vars

C34_Witness ==
    /\ IsSome(agent_rotated)
    /\ web_handler = "first_result"
    /\ RedirectsToLogin(web_reply)
    /\ NoResults(web_session)
    /\ "flash_msg" \in DOMAIN web_session

----------------------------------------------------------------------------
(* The claims about concurrent grade requests *)

RECURSIVE RunAlone(_, _, _)
\* the scraper of a request that runs alone against the answers of `script`,
\* from its call number `next` on
RunAlone(sc, script, next) ==
    IF next > 3 THEN sc
    ELSE LET after == scraper_step(sc, StepKinds[next], script[StepKinds[next]], sc.jar)
         IN  IF after.outcomes[Len(after.outcomes)] = "Ok"
             THEN RunAlone(after, script, next + 1)
             ELSE after

\* s is the beginning of t
IsPrefix(s, t) == Len(s) <= Len(t) /\ SubSeq(t, 1, Len(s)) = s

\* C31: concurrent grade requests are isolated: each score_from_official call
\* has its own AAOWebsite, and under any interleaving of the requests each
\* request's headers, cookies, requests sent, step outcomes and returned
\* courses are those of the same request running alone against the same
\* answers of the server.
C31_RequestsIsolated ==
    \A t \in DOMAIN scrapers :
        LET me    == scrapers[t]
            alone == RunAlone(scraper_new, portal_script[t], 1)
        IN  me.built =>
               /\ IsPrefix(me.sc.sent, alone.sent)
               /\ IsPrefix(me.sc.outcomes, alone.outcomes)
               /\ me.pc \in {"storing", "done", "failed"} => me.sc = alone
               /\ me.pc \in {"storing", "done"} =>
                     /\ IsSome(me.courses)
                     /\ Unwrap(me.courses) \in
                            IntoValues(ExtractCourses(
                                Unwrap(Unwrap(portal_script[t].grades).body)))

C31_Witness ==
    /\ \A t \in {1, 2} : scrapers[t].pc = "done" /\ scrapers[t].overlapped
    /\ scrapers[1].sc.jar = {"JSESSIONID", "SERVERID"}
    /\ scrapers[2].sc.jar = {"JSESSIONID"}
    /\ scrapers[2].sc.sent[3].cookies = {"JSESSIONID"}
    /\ scrapers[1].sc.headers["Referer"] = MAIN_URL
    /\ scrapers[2].sc.headers["Referer"] = LOGIN_URL
    /\ Len(Unwrap(scrapers[1].courses)) = 1
    /\ Len(Unwrap(scrapers[2].courses)) = 2

====
